---- MODULE Spec2Model ----
(***************************************************************************)
(* A model of CustomFastAPIDatafeed (src/unnamed/part_011): the            *)
(* time-windowed, capacity-bounded OHLCV cache with its auth-aware fetch,  *)
(* and the single-slot instruments catalog behind searchSymbols.           *)
(*                                                                         *)
(* One action is one run of the handler between two awaits: the JavaScript *)
(* event loop runs such a stretch to completion, and every Date.now() read *)
(* inside it sees the one value `now`.  Strings are sequences of           *)
(* characters, so that startsWith / includes / string equality of cache    *)
(* keys are computed as the code computes them; a character is a           *)
(* one-character string, or its code point ("U+00C9") outside ASCII.       *)
(***************************************************************************)
EXTENDS Integers, Sequences, FiniteSets, TLC

\* ------------------------------------------------------------------ bounds
MaxTime == 2          \* the clock runs 0..MaxTime
ExpArg == 1           \* the constructor's expirationTime argument
MaxTok == 2           \* tokens the auth provider may issue in one run

\* ----------------------------------------------------------------- strings
\* The integer n as `${n}` prints it: a minus sign if negative, then the digits.
RECURSIVE NumStr(_)
NumStr(n) ==
    LET d == <<"0", "1", "2", "3", "4", "5", "6", "7", "8", "9">>
    IN  IF n < 0 THEN <<"-">> \o NumStr(0 - n)
        ELSE IF n < 10 THEN <<d[n + 1]>>
        ELSE NumStr(n \div 10) \o <<d[(n % 10) + 1]>>

\* String.prototype.startsWith
StartsWith(s, p) ==
    /\ Len(p) <= Len(s)
    /\ SubSeq(s, 1, Len(p)) = p

\* String.prototype.includes
Includes(s, p) ==
    \E i \in 1..(Len(s) - Len(p) + 1) : SubSeq(s, i, i + Len(p) - 1) = p

Dash == <<"-">>

\* ---------------------------------------------------------------- requests
\* The symbols and periods the chart asks for.
TickerES == <<"E", "S">>
TickerNQ == <<"N", "Q">>
Minute == <<"m", "i", "n", "u", "t", "e">>
Day == <<"d", "a", "y">>

Symbols == {[ticker |-> TickerES], [ticker |-> TickerNQ]}
Periods == {[multiplier |-> 1, timespan |-> Minute],
            [multiplier |-> 1, timespan |-> Day]}

Requests ==
    {[symbol |-> [ticker |-> TickerES], period |-> [multiplier |-> 1, timespan |-> Minute],
      from |-> 0, to |-> 1],
     [symbol |-> [ticker |-> TickerES], period |-> [multiplier |-> 1, timespan |-> Day],
      from |-> 0, to |-> 1],
     [symbol |-> [ticker |-> TickerNQ], period |-> [multiplier |-> 1, timespan |-> Minute],
      from |-> 0, to |-> 1]}

NoReq == [symbol |-> [ticker |-> <<>>], period |-> [multiplier |-> 0, timespan |-> <<>>],
          from |-> 0, to |-> 0]

\* Mutant: the key leaves out the end of the range.
CacheKeyWithoutRangeEnd(r) ==
    r.symbol.ticker \o Dash \o NumStr(r.period.multiplier) \o r.period.timespan
        \o Dash \o NumStr(r.from)

\* `${symbol.ticker}-${period.multiplier}${period.timespan}-${from}-${to}`
CacheKey(r) ==
    r.symbol.ticker \o Dash \o NumStr(r.period.multiplier) \o r.period.timespan
        \o Dash \o NumStr(r.from) \o Dash \o NumStr(r.to)

\* The properties a plain object inherits from Object.prototype: the lookup
\* timespanMap[timespan] finds them as it finds the six own properties.  The
\* methods other than constructor are functions named as their property.
Constructor ==
    <<"c", "o", "n", "s", "t", "r", "u", "c", "t", "o", "r">>
Proto == <<"_", "_", "p", "r", "o", "t", "o", "_", "_">>
ObjectPrototypeMethods ==
    {<<"t", "o", "S", "t", "r", "i", "n", "g">>,
     <<"t", "o", "L", "o", "c", "a", "l", "e", "S", "t", "r", "i", "n", "g">>,
     <<"v", "a", "l", "u", "e", "O", "f">>,
     <<"h", "a", "s", "O", "w", "n", "P", "r", "o", "p", "e", "r", "t", "y">>,
     <<"i", "s", "P", "r", "o", "t", "o", "t", "y", "p", "e", "O", "f">>,
     <<"p", "r", "o", "p", "e", "r", "t", "y", "I", "s", "E", "n", "u", "m", "e", "r", "a",
       "b", "l", "e">>,
     <<"_", "_", "d", "e", "f", "i", "n", "e", "G", "e", "t", "t", "e", "r", "_", "_">>,
     <<"_", "_", "d", "e", "f", "i", "n", "e", "S", "e", "t", "t", "e", "r", "_", "_">>,
     <<"_", "_", "l", "o", "o", "k", "u", "p", "G", "e", "t", "t", "e", "r", "_", "_">>,
     <<"_", "_", "l", "o", "o", "k", "u", "p", "S", "e", "t", "t", "e", "r", "_", "_">>}

\* `${f}` of a built-in function f with the given name
NativeFunction(name) ==
    <<"f", "u", "n", "c", "t", "i", "o", "n", " ">> \o name
        \o <<"(", ")", " ", "{", " ", "[", "n", "a", "t", "i", "v", "e", " ">>
        \o <<"c", "o", "d", "e", "]", " ", "}">>

\* `${Object.prototype}`
ObjectObject ==
    <<"[", "o", "b", "j", "e", "c", "t", " ", "O", "b", "j", "e", "c", "t", "]">>

\* `${timespanMap[timespan]}`, 'm' when the lookup finds nothing.  Every value
\* found is truthy; constructor is the function Object, __proto__ is
\* Object.prototype.
TimespanCode(ts) ==
    CASE ts = Minute -> <<"m">>
      [] ts = <<"h", "o", "u", "r">> -> <<"h">>
      [] ts = Day -> <<"d">>
      [] ts = <<"w", "e", "e", "k">> -> <<"w">>
      [] ts = <<"m", "o", "n", "t", "h">> -> <<"M">>
      [] ts = <<"y", "e", "a", "r">> -> <<"Y">>
      [] ts = Constructor -> NativeFunction(<<"O", "b", "j", "e", "c", "t">>)
      [] ts = Proto -> ObjectObject
      [] ts \in ObjectPrototypeMethods -> NativeFunction(ts)
      [] OTHER -> <<"m">>

\* getTimeframeCode: an unknown timespan (no value found) defaults to 'm'.
GetTimeframeCode(multiplier, timespan) == NumStr(multiplier) \o TimespanCode(timespan)

\* ------------------------------------------------------------ configuration
\* The constructor's maxEntries arguments of the model's instances.
MaxEntriesArgs == {1, 2}

DefaultMaxEntries == 100
DefaultExpirationTime == 300000

\* The constructor's `config.x || default` and `config.persist ?? false`.
\* An omitted or zero number falls to the default.
CacheConfigOf(argMax, argExp, argPersist) ==
    [maxEntries |-> IF argMax = 0 THEN DefaultMaxEntries ELSE argMax,
     expirationTime |-> IF argExp = 0 THEN DefaultExpirationTime ELSE argExp,
     persist |-> argPersist]

\* ------------------------------------------------------------ the cache Map
\* A Map<string, CacheEntry> is the sequence of its entries in insertion order,
\* each [key, data, timestamp].
MapHas(m, k) == \E i \in 1..Len(m) : m[i].key = k

MapIndex(m, k) == CHOOSE i \in 1..Len(m) : m[i].key = k

\* Map.prototype.set: an existing key keeps its place, a new one goes last.
MapSet(m, k, d, t) ==
    LET e == [key |-> k, data |-> d, timestamp |-> t]
    IN  IF MapHas(m, k)
        THEN [i \in 1..Len(m) |-> IF m[i].key = k THEN e ELSE m[i]]
        ELSE Append(m, e)

\* Map.prototype.delete of every key in ks
MapDeleteAll(m, ks) == SelectSeq(m, LAMBDA e : e.key \notin ks)

\* Array.prototype.sort((a, b) => a[1].timestamp - b[1].timestamp): stable.
RECURSIVE InsertByTimestamp(_, _)
InsertByTimestamp(sorted, e) ==
    IF sorted = <<>> THEN <<e>>
    ELSE IF sorted[Len(sorted)].timestamp <= e.timestamp
         THEN Append(sorted, e)
         ELSE Append(InsertByTimestamp(SubSeq(sorted, 1, Len(sorted) - 1), e),
                     sorted[Len(sorted)])

RECURSIVE SortByTimestamp(_)
SortByTimestamp(m) ==
    IF m = <<>> THEN <<>>
    ELSE InsertByTimestamp(SortByTimestamp(SubSeq(m, 1, Len(m) - 1)), m[Len(m)])

\* Mutant: an entry exactly one window old counts as expired.
IsExpiredAtBoundary(e, t, cfg) == t - e.timestamp >= cfg.expirationTime

\* The expiry test of cleanExpiredEntries.
IsExpired(e, t, cfg) == t - e.timestamp > cfg.expirationTime

\* The expiry test of the lookup in getHistoryKLineData.
IsFresh(e, t, cfg) == t - e.timestamp <= cfg.expirationTime

\* Array.prototype.slice(0, n)
SliceFront(s, n) ==
    IF n <= 0 THEN <<>> ELSE SubSeq(s, 1, IF n < Len(s) THEN n ELSE Len(s))

\* Mutant: the capacity rule already fires at size == maxEntries and makes room
\* for one more entry.
CleanEvictsAtCapacity(m, t, cfg) ==
    LET live == SelectSeq(m, LAMBDA e : ~IsExpired(e, t, cfg))
        over == Len(live) >= cfg.maxEntries
        entriesToRemove == SliceFront(SortByTimestamp(live), Len(live) - cfg.maxEntries + 1)
        kept == IF over
                THEN MapDeleteAll(live, {entriesToRemove[i].key : i \in 1..Len(entriesToRemove)})
                ELSE live
    IN  [cache |-> kept, removed |-> (Len(live) < Len(m)) \/ over]

\* Mutant: only expired entries are removed, the capacity rule is missing.
CleanOnlyExpired(m, t, cfg) ==
    LET live == SelectSeq(m, LAMBDA e : ~IsExpired(e, t, cfg))
    IN  [cache |-> live, removed |-> Len(live) < Len(m)]

\* Mutant: the number of entries to remove is taken from the size before the
\* expired entries were deleted.
CleanCountsBeforeExpiry(m, t, cfg) ==
    LET live == SelectSeq(m, LAMBDA e : ~IsExpired(e, t, cfg))
        over == Len(m) > cfg.maxEntries
        entriesToRemove == SliceFront(SortByTimestamp(live), Len(m) - cfg.maxEntries)
        kept == IF over
                THEN MapDeleteAll(live, {entriesToRemove[i].key : i \in 1..Len(entriesToRemove)})
                ELSE live
    IN  [cache |-> kept, removed |-> (Len(live) < Len(m)) \/ over]

\* cleanExpiredEntries at time t: [cache, removed], removed being entriesRemoved.
CleanExpiredEntries(m, t, cfg) ==
    LET live == SelectSeq(m, LAMBDA e : ~IsExpired(e, t, cfg))
        over == Len(live) > cfg.maxEntries
        entriesToRemove == SliceFront(SortByTimestamp(live), Len(live) - cfg.maxEntries)
        kept == IF over
                THEN MapDeleteAll(live, {entriesToRemove[i].key : i \in 1..Len(entriesToRemove)})
                ELSE live
    IN  [cache |-> kept, removed |-> (Len(live) < Len(m)) \/ over]

\* ------------------------------------------------------------- persistence
\* The values a field of a bar holds: a number, Number.NaN (the product of
\* undefined and 1000), null (what JSON.stringify writes for NaN) or undefined.
Num(n) == [kind |-> "number", n |-> n]
NaN == [kind |-> "NaN", n |-> 0]
JsonNull == [kind |-> "null", n |-> 0]
Undefined == [kind |-> "undefined", n |-> 0]

\* JSON.stringify([...cache.entries()]) read back by JSON.parse: a number comes
\* back as it was, NaN becomes null.
JsonNumber(x) == IF x = NaN THEN JsonNull ELSE x

JsonBar(b) ==
    [timestamp |-> JsonNumber(b.timestamp), open |-> JsonNumber(b.open),
     high |-> JsonNumber(b.high), low |-> JsonNumber(b.low),
     close |-> JsonNumber(b.close), volume |-> JsonNumber(b.volume)]

JsonRoundTrip(m) ==
    [i \in 1..Len(m) |->
        [key |-> m[i].key,
         data |-> [j \in 1..Len(m[i].data) |-> JsonBar(m[i].data[j])],
         timestamp |-> m[i].timestamp]]

NoItem == [present |-> FALSE, entries |-> <<>>]

\* Whether localStorage.setItem succeeds (TRUE) or throws (FALSE); without
\* persistence saveToLocalStorage returns before calling it.
SetItemOutcomes(cfg) == IF cfg.persist THEN BOOLEAN ELSE {TRUE}

\* saveToLocalStorage: the item after the call; ok is whether setItem succeeded
\* (a failure is caught and logged).
SaveToLocalStorage(m, cfg, old, ok) ==
    IF ~cfg.persist THEN old
    ELSE IF ok THEN [present |-> TRUE, entries |-> JsonRoundTrip(m)]
    ELSE old

\* ----------------------------------------------------------- response body
\* A JSON value read by response.json(): its kind, the elements when it is an
\* array, and what it holds under each of the four recognised keys.
Absent == [present |-> FALSE, isArray |-> FALSE, items |-> <<>>]
NonArray == [present |-> TRUE, isArray |-> FALSE, items |-> <<>>]
Arr(items) == [present |-> TRUE, isArray |-> TRUE, items |-> items]

ArrayBody(items) ==
    [kind |-> "array", arr |-> items, data |-> Absent, results |-> Absent,
     ohlcv |-> Absent, values |-> Absent]
ObjectBody(d, r, o, v) ==
    [kind |-> "object", arr |-> <<>>, data |-> d, results |-> r, ohlcv |-> o, values |-> v]
NullBody == [kind |-> "null", arr |-> <<>>, data |-> Absent, results |-> Absent,
             ohlcv |-> Absent, values |-> Absent]
ScalarBody == [kind |-> "scalar", arr |-> <<>>, data |-> Absent, results |-> Absent,
               ohlcv |-> Absent, values |-> Absent]
NoBody == [kind |-> "none", arr |-> <<>>, data |-> Absent, results |-> Absent,
           ohlcv |-> Absent, values |-> Absent]
\* A body that response.json() cannot return: text that is not JSON, and a body
\* cut short by the connection.
NotJsonBody == [kind |-> "notjson", arr |-> <<>>, data |-> Absent, results |-> Absent,
                ohlcv |-> Absent, values |-> Absent]
BrokenBody == [kind |-> "broken", arr |-> <<>>, data |-> Absent, results |-> Absent,
               ohlcv |-> Absent, values |-> Absent]

\* One element of the series on the wire: the tuple [ts, o, h, l, c, v] or an
\* object with named fields (hasUnix / hasTs: whether unix_time / timestamp is set).
TupleItem(ts, o, h, l, c, v) ==
    [isArray |-> TRUE, tuple |-> <<ts, o, h, l, c, v>>, hasUnix |-> FALSE, unix_time |-> 0,
     hasTs |-> FALSE, timestamp |-> 0, open |-> 0, high |-> 0, low |-> 0, close |-> 0,
     volume |-> 0]
NamedItem(hasUnix, unix, hasTs, ts, o, h, l, c, v) ==
    [isArray |-> FALSE, tuple |-> <<>>, hasUnix |-> hasUnix, unix_time |-> unix,
     hasTs |-> hasTs, timestamp |-> ts, open |-> o, high |-> h, low |-> l, close |-> c,
     volume |-> v]

\* x * 1000 in JavaScript: undefined and NaN give NaN, null counts as 0.
Times1000(x) ==
    CASE x.kind = "number" -> Num(x.n * 1000)
      [] x.kind = "null" -> Num(0)
      [] OTHER -> NaN

\* item.unix_time || item.timestamp: undefined and 0 are falsy.
UnixOrTimestamp(item) ==
    IF item.hasUnix /\ item.unix_time # 0 THEN Num(item.unix_time)
    ELSE IF item.hasTs THEN Num(item.timestamp)
    ELSE Undefined

\* The callback of rawData.map
NormalizeItem(item) ==
    IF item.isArray
    THEN [timestamp |-> Times1000(Num(item.tuple[1])), open |-> Num(item.tuple[2]),
          high |-> Num(item.tuple[3]), low |-> Num(item.tuple[4]),
          close |-> Num(item.tuple[5]), volume |-> Num(item.tuple[6])]
    ELSE [timestamp |-> Times1000(UnixOrTimestamp(item)), open |-> Num(item.open),
          high |-> Num(item.high), low |-> Num(item.low), close |-> Num(item.close),
          volume |-> Num(item.volume)]

Normalize(rawData) == [i \in 1..Len(rawData) |-> NormalizeItem(rawData[i])]

\* The shape detection of getHistoryKLineData: [outcome, rawData], outcome being
\* "ok", "invalid" (the thrown 'Invalid data format received from API') or
\* "typeerror" (reading .data of null throws a TypeError).
DetectShape(response) ==
    IF response.kind = "array" THEN [outcome |-> "ok", rawData |-> response.arr]
    ELSE IF response.kind = "null" THEN [outcome |-> "typeerror", rawData |-> <<>>]
    ELSE IF response.data.present /\ response.data.isArray
         THEN [outcome |-> "ok", rawData |-> response.data.items]
    ELSE IF response.results.present /\ response.results.isArray
         THEN [outcome |-> "ok", rawData |-> response.results.items]
    ELSE IF response.ohlcv.present /\ response.ohlcv.isArray
         THEN [outcome |-> "ok", rawData |-> response.ohlcv.items]
    ELSE IF response.values.present /\ response.values.isArray
         THEN [outcome |-> "ok", rawData |-> response.values.items]
    ELSE [outcome |-> "invalid", rawData |-> <<>>]

\* The bodies the remote endpoint answers with.
BarsA == <<TupleItem(1, 10, 12, 9, 11, 100), TupleItem(2, 11, 13, 10, 12, 50)>>
\* Named-field bars delivered newest first, the oldest at the epoch itself.
BarsB == <<NamedItem(TRUE, 3, FALSE, 0, 20, 22, 19, 21, 70),
           NamedItem(TRUE, 1, FALSE, 0, 21, 23, 20, 22, 30),
           NamedItem(TRUE, 0, FALSE, 0, 22, 24, 21, 23, 10)>>

Bodies ==
    {ArrayBody(BarsA),
     ObjectBody(Arr(BarsB), Absent, Absent, Absent),
     ObjectBody(NonArray, Absent, Absent, Arr(BarsA)),
     ObjectBody(Absent, Absent, Absent, Absent),
     ObjectBody(NonArray, NonArray, Absent, Absent),
     ScalarBody,
     NullBody}

\* HTTP statuses the remote endpoint answers with; Response.ok is 200..299.
Statuses == {200, 401, 500}
ResponseOk(status) == status >= 200 /\ status <= 299

\* ------------------------------------------------------------------ errors
\* What a failed getHistoryKLineData rejects with: the message of the Error the
\* code throws, under the name the error taxonomy gives it.
AuthenticationRequired == "No authentication token available"
AuthenticationFailed == "Authentication failed - please log in again"
RemoteRequestFailed == "HTTP error! status"
MalformedResponse == "Invalid data format received from API"
\* fetch() itself rejecting: the rejection passes through every frame untouched.
NetworkUnavailable == "fetch rejected"
\* The TypeError of reading a property of null.
NullTypeError == "TypeError: cannot read properties of null"
\* response.json() rejecting: the text of the body is not JSON.
JsonSyntaxError == "SyntaxError: not valid JSON"
\* response.json() rejecting: the connection broke before the end of the body.
BodyTerminated == "TypeError: terminated"
\* supabase.auth.refreshSession() itself rejecting.
RefreshRejected == "refreshSession rejected"

\* ------------------------------------------------------------------- state
Calls == {1, 2}       \* getHistoryKLineData calls that may be in flight at once
SearchCalls == {1, 2} \* searchSymbols calls that may be in flight at once

VARIABLES
    cacheConfig,      \* this.cacheConfig: [maxEntries, expirationTime, persist]
    cache,            \* this.cache, a Map in insertion order
    storage,          \* localStorage's 'chartCache' item
    now,              \* Date.now()
    issued,           \* the access token of the auth provider's current session
    calls,            \* per call: where it is suspended, its arguments, what it did
    last,             \* the public operation that completed most recently
    instrumentsCache, \* this.instrumentsCache: null, or [instruments, timestamp]
    searching,        \* per searchSymbols call: where it is suspended, its argument
    listed,           \* the searchSymbols call that completed most recently
    peer              \* the other instance alive in the page, if any

\* The state of the instruments catalog.
catalogVars == <<instrumentsCache, searching, listed>>

vars == <<cacheConfig, cache, storage, now, issued, calls, last, catalogVars, peer>>

\* What a call did so far, in order: the token lookup, each HTTP request with the
\* token it carried and its answer, the token refresh.
TokenEv(res, tok) ==
    [type |-> "token", res |-> res, tok |-> tok, status |-> 0, body |-> NoBody]
HttpEv(res, tok, status, body) ==
    [type |-> "http", res |-> res, tok |-> tok, status |-> status, body |-> body]
RefreshEv(res, tok) ==
    [type |-> "refresh", res |-> res, tok |-> tok, status |-> 0, body |-> NoBody]

\* The trace with its last (pending) event answered.
Answered(tr, ev) == [tr EXCEPT ![Len(tr)] = ev]

IdleCall == [pc |-> "idle", req |-> NoReq, trace |-> <<>>]

NoOp ==
    [op |-> "none", req |-> NoReq, outcome |-> "", err |-> "", status |-> 0,
     data |-> <<>>, trace |-> <<>>, storedAt |-> 0, age |-> 0]

\* A getHistoryKLineData call resolving with a series: from the cache ("hit",
\* with the timestamp and the age of the entry served) or from the response it
\* stored ("fetched", with the timestamp it stored).
Returned(r, how, data, tr, storedAt, age) ==
    [op |-> "fetch", req |-> r, outcome |-> how, err |-> "", status |-> 0,
     data |-> data, trace |-> tr, storedAt |-> storedAt, age |-> age]

\* A getHistoryKLineData call rejecting.
Rejected(r, err, status, tr) ==
    [op |-> "fetch", req |-> r, outcome |-> "error", err |-> err, status |-> status,
     data |-> <<>>, trace |-> tr, storedAt |-> 0, age |-> 0]

Cleared ==
    [op |-> "clear", req |-> NoReq, outcome |-> "", err |-> "", status |-> 0,
     data |-> <<>>, trace |-> <<>>, storedAt |-> 0, age |-> 0]

\* this.instrumentsCache = null
NoCatalog ==
    [present |-> FALSE, instruments |-> [isArray |-> TRUE, items |-> <<>>], timestamp |-> 0]

\* A searchSymbols call that is not in flight.
IdleSearch == [pc |-> "idle", hasSearch |-> FALSE, search |-> <<>>, now |-> 0]

NoListing ==
    [op |-> "none", hasSearch |-> FALSE, search |-> <<>>, source |-> "",
     instruments |-> [isArray |-> TRUE, items |-> <<>>], age |-> 0,
     result |-> [settled |-> "resolved", symbols |-> <<>>]]

\* No other instance has been constructed.
NoPeer ==
    [present |-> FALSE, cacheConfig |-> CacheConfigOf(0, 0, FALSE), cache |-> <<>>,
     instrumentsCache |-> NoCatalog]

\* The constructor with persistence off (the default): initializeCache starts
\* from an empty Map and never reads localStorage.
Init ==
    /\ \E m \in MaxEntriesArgs : cacheConfig = CacheConfigOf(m, ExpArg, FALSE)
    /\ cache = <<>>
    /\ storage = NoItem
    /\ now = 0
    /\ issued = 1
    /\ calls = [c \in Calls |-> IdleCall]
    /\ last = NoOp
    /\ instrumentsCache = NoCatalog
    /\ searching = [c \in SearchCalls |-> IdleSearch]
    /\ listed = NoListing
    /\ peer = NoPeer

\* ----------------------------------------------------------------- actions
\* Time passes.
Tick ==
    /\ now < MaxTime
    /\ now' = now + 1
    /\ UNCHANGED <<peer, catalogVars, cacheConfig, cache, storage, issued, calls, last>>

\* getHistoryKLineData(symbol, period, from, to) up to its first await:
\* cleanExpiredEntries, the lookup, and on a miss the call of fetchWithAuth, which
\* suspends in getAuthToken.  The clock is read twice, by cleanExpiredEntries
\* (now) and by the lookup (t, the same instant or a later one).
Start(c, r) ==
    LET cleaned == CleanExpiredEntries(cache, now, cacheConfig)
        cacheKey == CacheKey(r)
        found == MapHas(cleaned.cache, cacheKey)
        cachedEntry == cleaned.cache[MapIndex(cleaned.cache, cacheKey)]
    IN  /\ calls[c].pc = "idle"
        /\ cache' = cleaned.cache
        /\ \E ok \in SetItemOutcomes(cacheConfig) :
              storage' = IF cleaned.removed
                         THEN SaveToLocalStorage(cleaned.cache, cacheConfig, storage, ok)
                         ELSE storage
        /\ \E t \in now..MaxTime :
              /\ now' = t
              /\ IF found /\ IsFresh(cachedEntry, t, cacheConfig)
                 THEN /\ last' = Returned(r, "hit", cachedEntry.data, <<>>,
                                          cachedEntry.timestamp, t - cachedEntry.timestamp)
                      /\ UNCHANGED calls
                 ELSE /\ calls' = [calls EXCEPT
                                      ![c] = [pc |-> "token", req |-> r, trace |-> <<>>]]
                      /\ UNCHANGED last
        /\ UNCHANGED <<peer, catalogVars, cacheConfig, issued>>

\* The call rejects.
Fail(c, err, status, tr) ==
    /\ last' = Rejected(calls[c].req, err, status, tr)
    /\ calls' = [calls EXCEPT ![c] = IdleCall]
    /\ UNCHANGED <<peer, catalogVars, cacheConfig, cache, storage, now, issued>>

\* Mutant: the `if (!token)` guard is missing, the request goes out without a token.
TokenResultSendsWithoutToken(c) ==
    /\ calls[c].pc = "token"
    /\ \E res \in {"ok", "null", "throw"} :
          /\ calls' = [calls EXCEPT
                ![c].pc = "fetch1",
                ![c].trace = <<TokenEv(res, IF res = "ok" THEN issued ELSE 0),
                               HttpEv("pending", IF res = "ok" THEN issued ELSE 0, 0, NoBody)>>]
          /\ UNCHANGED <<peer, catalogVars, cacheConfig, cache, storage, now, issued, last>>

\* getAuthToken resolves: supabase.auth.getSession() gave a session with a token,
\* gave none, or threw (caught, null).  Without a token fetchWithAuth throws;
\* with one it sends the request.
TokenResult(c) ==
    /\ calls[c].pc = "token"
    /\ \E res \in {"ok", "null", "throw"} :
          IF res = "ok"
          THEN /\ calls' = [calls EXCEPT ![c].pc = "fetch1",
                                         ![c].trace = <<TokenEv("ok", issued),
                                                        HttpEv("pending", issued, 0, NoBody)>>]
               /\ UNCHANGED <<peer, catalogVars, cacheConfig, cache, storage, now, issued, last>>
          ELSE Fail(c, AuthenticationRequired, 0, <<TokenEv(res, 0)>>)

\* Mutant: saveToLocalStorage has no try/catch: a setItem that throws makes
\* the call reject after cache.set.
FinishPropagatesSaveFailure(c, tr, response) ==
    LET shape == DetectShape(response)
        r == calls[c].req
        data == Normalize(shape.rawData)
    IN  IF shape.outcome = "ok"
        THEN /\ cache' = MapSet(cache, CacheKey(r), data, now)
             /\ \E ok \in SetItemOutcomes(cacheConfig) :
                   /\ storage' = SaveToLocalStorage(cache', cacheConfig, storage, ok)
                   /\ last' = IF ok THEN Returned(r, "fetched", data, tr, now, 0)
                              ELSE Rejected(r, "QuotaExceededError", 0, tr)
             /\ calls' = [calls EXCEPT ![c] = IdleCall]
             /\ UNCHANGED <<peer, catalogVars, cacheConfig, now, issued>>
        ELSE Fail(c, IF shape.outcome = "invalid" THEN MalformedResponse ELSE NullTypeError,
                  0, tr)

\* Mutant: the insertion keeps an entry that is already stored under the key
\* (cache.has(key) || cache.set(...)): the first write wins.
FinishKeepsExistingEntry(c, tr, response) ==
    LET shape == DetectShape(response)
        r == calls[c].req
        data == Normalize(shape.rawData)
    IN  IF shape.outcome = "ok"
        THEN /\ cache' = IF MapHas(cache, CacheKey(r)) THEN cache
                          ELSE MapSet(cache, CacheKey(r), data, now)
             /\ \E ok \in SetItemOutcomes(cacheConfig) :
                   storage' = SaveToLocalStorage(cache', cacheConfig, storage, ok)
             /\ last' = Returned(r, "fetched", data, tr, now, 0)
             /\ calls' = [calls EXCEPT ![c] = IdleCall]
             /\ UNCHANGED <<peer, catalogVars, cacheConfig, now, issued>>
        ELSE Fail(c, IF shape.outcome = "invalid" THEN MalformedResponse ELSE NullTypeError,
                  0, tr)

\* The rest of getHistoryKLineData once fetchWithAuth returned the parsed body:
\* shape detection, normalisation, cache.set, saveToLocalStorage, return.
Finish(c, tr, response) ==
    LET shape == DetectShape(response)
        r == calls[c].req
        data == Normalize(shape.rawData)
    IN  IF shape.outcome = "ok"
        THEN /\ cache' = MapSet(cache, CacheKey(r), data, now)
             /\ \E ok \in SetItemOutcomes(cacheConfig) :
                   storage' = SaveToLocalStorage(cache', cacheConfig, storage, ok)
             /\ last' = Returned(r, "fetched", data, tr, now, 0)
             /\ calls' = [calls EXCEPT ![c] = IdleCall]
             /\ UNCHANGED <<peer, catalogVars, cacheConfig, now, issued>>
        ELSE Fail(c, IF shape.outcome = "invalid" THEN MalformedResponse ELSE NullTypeError,
                  0, tr)

\* `await response.json()`: the call suspends until the body has been read.
AwaitJson(c, tr) ==
    /\ calls' = [calls EXCEPT ![c].pc = "json", ![c].trace = tr]
    /\ UNCHANGED <<peer, catalogVars, cacheConfig, cache, storage, now, issued, last>>

\* Mutant: every non-2xx status, not only 401, starts the token refresh.
FirstResponseRefreshesOnAnyError(c) ==
    LET tr == calls[c].trace
        tok == tr[Len(tr)].tok
    IN  /\ calls[c].pc = "fetch1"
        /\ \/ Fail(c, NetworkUnavailable, 0, Answered(tr, HttpEv("rejected", tok, 0, NoBody)))
           \/ \E status \in Statuses :
                 IF ~ResponseOk(status)
                 THEN /\ calls' = [calls EXCEPT
                            ![c].pc = "refresh",
                            ![c].trace = Append(Answered(tr, HttpEv("answered", tok, status, NoBody)),
                                                RefreshEv("pending", 0))]
                      /\ UNCHANGED <<peer, catalogVars, cacheConfig, cache, storage, now, issued, last>>
                 ELSE AwaitJson(c, Answered(tr, HttpEv("answered", tok, status, NoBody)))

\* Mutant: a rejected fetch is caught and the call resolves with an empty series.
FirstResponseSwallowsRejection(c) ==
    LET tr == calls[c].trace
        tok == tr[Len(tr)].tok
    IN  /\ calls[c].pc = "fetch1"
        /\ \/ /\ last' = Returned(calls[c].req, "fetched", <<>>,
                                  Answered(tr, HttpEv("rejected", tok, 0, NoBody)), now, 0)
              /\ calls' = [calls EXCEPT ![c] = IdleCall]
              /\ UNCHANGED <<peer, catalogVars, cacheConfig, cache, storage, now, issued>>
           \/ \E status \in Statuses :
                 IF status = 401
                 THEN /\ calls' = [calls EXCEPT
                            ![c].pc = "refresh",
                            ![c].trace = Append(Answered(tr, HttpEv("answered", tok, 401, NoBody)),
                                                RefreshEv("pending", 0))]
                      /\ UNCHANGED <<peer, catalogVars, cacheConfig, cache, storage, now, issued, last>>
                 ELSE IF ~ResponseOk(status)
                 THEN Fail(c, RemoteRequestFailed, status,
                           Answered(tr, HttpEv("answered", tok, status, NoBody)))
                 ELSE AwaitJson(c, Answered(tr, HttpEv("answered", tok, status, NoBody)))

\* The first fetch settles: it rejects (network), or answers with a status.
\* 401 calls supabase.auth.refreshSession(); another non-2xx throws; on 2xx
\* response.json() is awaited.
FirstResponse(c) ==
    LET tr == calls[c].trace
        tok == tr[Len(tr)].tok
    IN  /\ calls[c].pc = "fetch1"
        /\ \/ Fail(c, NetworkUnavailable, 0, Answered(tr, HttpEv("rejected", tok, 0, NoBody)))
           \/ \E status \in Statuses :
                 IF status = 401
                 THEN /\ calls' = [calls EXCEPT
                            ![c].pc = "refresh",
                            ![c].trace = Append(Answered(tr, HttpEv("answered", tok, 401, NoBody)),
                                                RefreshEv("pending", 0))]
                      /\ UNCHANGED <<peer, catalogVars, cacheConfig, cache, storage, now, issued, last>>
                 ELSE IF ~ResponseOk(status)
                 THEN Fail(c, RemoteRequestFailed, status,
                           Answered(tr, HttpEv("answered", tok, status, NoBody)))
                 ELSE AwaitJson(c, Answered(tr, HttpEv("answered", tok, status, NoBody)))

\* Mutant: the retried request carries the token of the first request.
RefreshResultReusesToken(c) ==
    LET tr == calls[c].trace
    IN  /\ calls[c].pc = "refresh"
        /\ \/ \E res \in {"error", "nosession"} :
                 Fail(c, AuthenticationFailed, 0, Answered(tr, RefreshEv(res, 0)))
           \/ Fail(c, RefreshRejected, 0, Answered(tr, RefreshEv("throw", 0)))
           \/ /\ issued < MaxTok
              /\ issued' = issued + 1
              /\ calls' = [calls EXCEPT
                    ![c].pc = "fetch2",
                    ![c].trace = Append(Answered(tr, RefreshEv("ok", issued')),
                                        HttpEv("pending", tr[1].tok, 0, NoBody))]
              /\ UNCHANGED <<peer, catalogVars, cacheConfig, cache, storage, now, last>>

\* Mutant: a failed refresh is not checked, the request is retried with the old
\* token.
RefreshResultIgnoresFailure(c) ==
    LET tr == calls[c].trace
    IN  /\ calls[c].pc = "refresh"
        /\ \/ \E res \in {"error", "nosession"} :
                 /\ calls' = [calls EXCEPT
                       ![c].pc = "fetch2",
                       ![c].trace = Append(Answered(tr, RefreshEv(res, 0)),
                                           HttpEv("pending", tr[1].tok, 0, NoBody))]
                 /\ UNCHANGED <<peer, catalogVars, cacheConfig, cache, storage, now, issued, last>>
           \/ Fail(c, RefreshRejected, 0, Answered(tr, RefreshEv("throw", 0)))
           \/ /\ issued < MaxTok
              /\ issued' = issued + 1
              /\ calls' = [calls EXCEPT
                    ![c].pc = "fetch2",
                    ![c].trace = Append(Answered(tr, RefreshEv("ok", issued')),
                                        HttpEv("pending", issued', 0, NoBody))]
              /\ UNCHANGED <<peer, catalogVars, cacheConfig, cache, storage, now, last>>

\* refreshSession settles: an error or no session throws; a session's token goes
\* on the retried request; a rejection of refreshSession() itself is not caught
\* and rejects the call.
RefreshResult(c) ==
    LET tr == calls[c].trace
    IN  /\ calls[c].pc = "refresh"
        /\ \/ \E res \in {"error", "nosession"} :
                 Fail(c, AuthenticationFailed, 0, Answered(tr, RefreshEv(res, 0)))
           \/ Fail(c, RefreshRejected, 0, Answered(tr, RefreshEv("throw", 0)))
           \/ /\ issued < MaxTok
              /\ issued' = issued + 1
              /\ calls' = [calls EXCEPT
                    ![c].pc = "fetch2",
                    ![c].trace = Append(Answered(tr, RefreshEv("ok", issued')),
                                        HttpEv("pending", issued', 0, NoBody))]
              /\ UNCHANGED <<peer, catalogVars, cacheConfig, cache, storage, now, last>>

\* Mutant: the error of a refused retry reports response.status, the 401 of the
\* first response, instead of retryResponse.status.
RetryResponseReportsFirstStatus(c) ==
    LET tr == calls[c].trace
        tok == tr[Len(tr)].tok
    IN  /\ calls[c].pc = "fetch2"
        /\ \/ Fail(c, NetworkUnavailable, 0, Answered(tr, HttpEv("rejected", tok, 0, NoBody)))
           \/ \E status \in Statuses :
                 IF ~ResponseOk(status)
                 THEN Fail(c, RemoteRequestFailed, tr[2].status,
                           Answered(tr, HttpEv("answered", tok, status, NoBody)))
                 ELSE AwaitJson(c, Answered(tr, HttpEv("answered", tok, status, NoBody)))

\* Mutant: a 401 on the retried request starts another refresh (a retry loop).
RetryResponseRefreshesAgain(c) ==
    LET tr == calls[c].trace
        tok == tr[Len(tr)].tok
    IN  /\ calls[c].pc = "fetch2"
        /\ \/ Fail(c, NetworkUnavailable, 0, Answered(tr, HttpEv("rejected", tok, 0, NoBody)))
           \/ \E status \in Statuses :
                 IF status = 401
                 THEN /\ calls' = [calls EXCEPT
                            ![c].pc = "refresh",
                            ![c].trace = Append(Answered(tr, HttpEv("answered", tok, 401, NoBody)),
                                                RefreshEv("pending", 0))]
                      /\ UNCHANGED <<peer, catalogVars, cacheConfig, cache, storage, now, issued, last>>
                 ELSE IF ~ResponseOk(status)
                 THEN Fail(c, RemoteRequestFailed, status,
                           Answered(tr, HttpEv("answered", tok, status, NoBody)))
                 ELSE AwaitJson(c, Answered(tr, HttpEv("answered", tok, status, NoBody)))

\* The retried fetch settles: it rejects, or any non-2xx throws, or on 2xx
\* retryResponse.json() is awaited.
RetryResponse(c) ==
    LET tr == calls[c].trace
        tok == tr[Len(tr)].tok
    IN  /\ calls[c].pc = "fetch2"
        /\ \/ Fail(c, NetworkUnavailable, 0, Answered(tr, HttpEv("rejected", tok, 0, NoBody)))
           \/ \E status \in Statuses :
                 IF ~ResponseOk(status)
                 THEN Fail(c, RemoteRequestFailed, status,
                           Answered(tr, HttpEv("answered", tok, status, NoBody)))
                 ELSE AwaitJson(c, Answered(tr, HttpEv("answered", tok, status, NoBody)))

\* response.json() / retryResponse.json() settles: the body parsed as JSON is
\* returned to getHistoryKLineData, which runs to its end; or the promise rejects,
\* with a SyntaxError when the text is not JSON, with a TypeError when the
\* connection breaks before the body is complete, and so does the call.
JsonResult(c) ==
    LET tr == calls[c].trace
        ev == tr[Len(tr)]
    IN  /\ calls[c].pc = "json"
        /\ \/ \E body \in Bodies :
                 Finish(c, Answered(tr, HttpEv("answered", ev.tok, ev.status, body)), body)
           \/ Fail(c, JsonSyntaxError, 0,
                   Answered(tr, HttpEv("answered", ev.tok, ev.status, NotJsonBody)))
           \/ Fail(c, BodyTerminated, 0,
                   Answered(tr, HttpEv("answered", ev.tok, ev.status, BrokenBody)))

\* Mutant: the loop stops at the first key it deletes.
ClearedMapDeletesFirstMatch(m, hasSymbol, symbol, hasPeriod, period) ==
    LET prefix == IF hasSymbol THEN symbol.ticker \o Dash ELSE <<>>
        timeframe == IF hasPeriod
                     THEN NumStr(period.multiplier) \o period.timespan \o Dash
                     ELSE <<>>
        hits == {j \in 1..Len(m) :
                    /\ StartsWith(m[j].key, prefix)
                    /\ (~hasPeriod \/ Includes(m[j].key, timeframe))}
        first == CHOOSE j \in hits : \A k \in hits : j <= k
    IN  IF ~hasSymbol /\ ~hasPeriod THEN <<>>
        ELSE IF hits = {} THEN m
        ELSE MapDeleteAll(m, {m[first].key})

\* The Map that clearCache(symbol?, period?) leaves: empty without arguments,
\* else without the keys that start with `${symbol.ticker}-` and, with a period,
\* include `${period.multiplier}${period.timespan}-`.
ClearedMap(m, hasSymbol, symbol, hasPeriod, period) ==
    LET prefix == IF hasSymbol THEN symbol.ticker \o Dash ELSE <<>>
        timeframe == IF hasPeriod
                     THEN NumStr(period.multiplier) \o period.timespan \o Dash
                     ELSE <<>>
        doomed == {m[i].key : i \in {j \in 1..Len(m) :
                        /\ StartsWith(m[j].key, prefix)
                        /\ (~hasPeriod \/ Includes(m[j].key, timeframe))}}
    IN  IF ~hasSymbol /\ ~hasPeriod THEN <<>> ELSE MapDeleteAll(m, doomed)

\* Mutant: clearCache also drops the calls in flight.
ClearCacheCancelsCalls(hasSymbol, symbol, hasPeriod, period) ==
    /\ cache' = ClearedMap(cache, hasSymbol, symbol, hasPeriod, period)
    /\ \E ok \in SetItemOutcomes(cacheConfig) :
          storage' = SaveToLocalStorage(cache', cacheConfig, storage, ok)
    /\ last' = Cleared
    /\ calls' = [c \in Calls |-> IdleCall]
    /\ UNCHANGED <<peer, catalogVars, cacheConfig, now, issued>>

\* Mutant: clearCache returns after the deletions, without saveToLocalStorage.
ClearCacheWithoutSave(hasSymbol, symbol, hasPeriod, period) ==
    /\ cache' = ClearedMap(cache, hasSymbol, symbol, hasPeriod, period)
    /\ last' = Cleared
    /\ UNCHANGED <<peer, catalogVars, cacheConfig, storage, now, issued, calls>>

\* clearCache(symbol?, period?): the deletions, then saveToLocalStorage.
ClearCache(hasSymbol, symbol, hasPeriod, period) ==
    /\ cache' = ClearedMap(cache, hasSymbol, symbol, hasPeriod, period)
    /\ \E ok \in SetItemOutcomes(cacheConfig) :
          storage' = SaveToLocalStorage(cache', cacheConfig, storage, ok)
    /\ last' = Cleared
    /\ UNCHANGED <<peer, catalogVars, cacheConfig, now, issued, calls>>

NoSymbol == [ticker |-> <<>>]
NoPeriod == [multiplier |-> 0, timespan |-> <<>>]

\* The symbols and the periods of a set of requests.
SymbolsOf(reqs) == {r.symbol : r \in reqs}
PeriodsOf(reqs) == {r.period : r \in reqs}

\* The steps of a run in which the chart asks for the requests of reqs, through
\* the call slots of slots, and clears the cache for their symbols and periods.
NextOver(reqs, slots) ==
    \/ Tick
    \/ \E c \in slots, r \in reqs : Start(c, r)
    \/ \E c \in slots : TokenResult(c)
    \/ \E c \in slots : FirstResponse(c)
    \/ \E c \in slots : RefreshResult(c)
    \/ \E c \in slots : RetryResponse(c)
    \/ \E c \in slots : JsonResult(c)
    \/ ClearCache(FALSE, NoSymbol, FALSE, NoPeriod)
    \/ \E s \in SymbolsOf(reqs) : ClearCache(TRUE, s, FALSE, NoPeriod)
    \/ \E s \in SymbolsOf(reqs), p \in PeriodsOf(reqs) : ClearCache(TRUE, s, TRUE, p)
    \/ \E p \in PeriodsOf(reqs) : ClearCache(FALSE, NoSymbol, TRUE, p)

\* Calls made one after the other: each starts when the one before has settled.
Next == NextOver(Requests, {1})

Spec == Init /\ [][Next]_vars

\* ---------------------------------------------------- keys that resemble
\* Requests whose keys resemble one another: a ticker that continues another
\* ticker after the separator, a multiplier whose digits end in another's, a
\* range that contains another.
TickerESH == <<"E", "S", "-", "H">>

KeyRequests ==
    {[symbol |-> [ticker |-> TickerES], period |-> [multiplier |-> 1, timespan |-> Minute],
      from |-> 0, to |-> 1],
     [symbol |-> [ticker |-> TickerES], period |-> [multiplier |-> 11, timespan |-> Minute],
      from |-> 0, to |-> 1],
     [symbol |-> [ticker |-> TickerESH], period |-> [multiplier |-> 1, timespan |-> Minute],
      from |-> 0, to |-> 1],
     [symbol |-> [ticker |-> TickerES], period |-> [multiplier |-> 1, timespan |-> Minute],
      from |-> 0, to |-> 2]}

NextKeys == NextOver(KeyRequests, {1})

\* An instance constructed with maxEntries 1.
InitKeys == Init /\ cacheConfig.maxEntries = 1

SpecKeys == InitKeys /\ [][NextKeys]_vars

\* ------------------------------------------------------ overlapping calls
\* The chart asks twice for one series before the first call has settled.
OverlapRequests ==
    {[symbol |-> [ticker |-> TickerES], period |-> [multiplier |-> 1, timespan |-> Minute],
      from |-> 0, to |-> 1]}

\* Calls start whenever a slot is free: two may be suspended at once, and their
\* stretches between awaits interleave in any order.
NextOverlap == NextOver(OverlapRequests, Calls)

SpecOverlap == Init /\ [][NextOverlap]_vars

\* ------------------------------------------- construction and persistence
\* Whether reading the mirror succeeds (TRUE) or localStorage.getItem /
\* JSON.parse throws (FALSE); without persistence initializeCache reads nothing.
ReadOutcomes(cfg) == IF cfg.persist THEN BOOLEAN ELSE {TRUE}

\* Mutant: initializeCache reads the mirror whether or not persist is set.
InitializeCacheIgnoresPersistFlag(cfg, item, readOk, t) ==
    IF ~readOk \/ ~item.present THEN [cache |-> <<>>, removed |-> FALSE]
    ELSE CleanExpiredEntries(item.entries, t, cfg)

\* Mutant: the saved entries are loaded without cleanExpiredEntries.
InitializeCacheWithoutPruning(cfg, item, readOk, t) ==
    IF ~cfg.persist \/ ~readOk \/ ~item.present THEN [cache |-> <<>>, removed |-> FALSE]
    ELSE [cache |-> item.entries, removed |-> FALSE]

\* initializeCache at time t: [cache, removed].  Without persistence, after a
\* failed read, and without a saved item the Map is empty; else it is the saved
\* entries after cleanExpiredEntries (removed: whether that run saves again).
InitializeCache(cfg, item, readOk, t) ==
    IF ~cfg.persist \/ ~readOk \/ ~item.present THEN [cache |-> <<>>, removed |-> FALSE]
    ELSE CleanExpiredEntries(item.entries, t, cfg)

\* new CustomFastAPIDatafeed(baseUrl, config) returned: how initializeCache went
\* ("off": no persistence, "readfailed", "empty": no saved item, "loaded").
Constructed(how) ==
    [op |-> "construct", req |-> NoReq, outcome |-> how, err |-> "", status |-> 0,
     data |-> <<>>, trace |-> <<>>, storedAt |-> 0, age |-> 0]

\* The page turned to its other instance.
Switched ==
    [op |-> "switch", req |-> NoReq, outcome |-> "", err |-> "", status |-> 0,
     data |-> <<>>, trace |-> <<>>, storedAt |-> 0, age |-> 0]

\* No call of the instance is suspended.
Quiet ==
    /\ \A c \in Calls : calls[c].pc = "idle"
    /\ \A c \in SearchCalls : searching[c].pc = "idle"

\* new CustomFastAPIDatafeed(baseUrl, {maxEntries, expirationTime, persist}):
\* the configuration, initializeCache, an instruments slot of null.  The new
\* instance is the one the page goes on to call; the instance it called so far
\* stays alive beside it (keep) or is dropped, as when the page is reloaded.
Construct(argMax, argExp, argPersist, keep) ==
    LET cfg == CacheConfigOf(argMax, argExp, argPersist)
    IN  /\ Quiet
        /\ \E readOk \in ReadOutcomes(cfg) :
              LET init == InitializeCache(cfg, storage, readOk, now)
              IN  /\ cache' = init.cache
                  /\ \E ok \in SetItemOutcomes(cfg) :
                        storage' = IF init.removed
                                   THEN SaveToLocalStorage(init.cache, cfg, storage, ok)
                                   ELSE storage
                  /\ last' = Constructed(IF ~cfg.persist THEN "off"
                                          ELSE IF ~readOk THEN "readfailed"
                                          ELSE IF ~storage.present THEN "empty"
                                          ELSE "loaded")
        /\ cacheConfig' = cfg
        /\ instrumentsCache' = NoCatalog
        /\ peer' = IF keep
                   THEN [present |-> TRUE, cacheConfig |-> cacheConfig, cache |-> cache,
                         instrumentsCache |-> instrumentsCache]
                   ELSE NoPeer
        /\ UNCHANGED <<now, issued, calls, searching, listed>>

\* The page turns to its other instance: the fields of `this` in the calls
\* that follow are that instance's.
Refocus ==
    /\ Quiet
    /\ peer.present
    /\ cacheConfig' = peer.cacheConfig
    /\ cache' = peer.cache
    /\ instrumentsCache' = peer.instrumentsCache
    /\ peer' = [present |-> TRUE, cacheConfig |-> cacheConfig, cache |-> cache,
                instrumentsCache |-> instrumentsCache]
    /\ last' = Switched
    /\ UNCHANGED <<storage, now, issued, calls, searching, listed>>

\* The series of a page with persistence.
PersistRequests ==
    {[symbol |-> [ticker |-> TickerES], period |-> [multiplier |-> 1, timespan |-> Minute],
      from |-> 0, to |-> 1]}

\* What the browser holds under 'chartCache' when the page is loaded: nothing,
\* or the store an instance with maxEntries 2 saved in an earlier visit, its
\* entries stamped before the load.
SavedEntries ==
    <<[key |-> CacheKey([symbol |-> [ticker |-> TickerNQ],
                         period |-> [multiplier |-> 1, timespan |-> Minute],
                         from |-> 0, to |-> 1]),
       data |-> Normalize(BarsA), timestamp |-> 0 - 1],
      [key |-> CacheKey([symbol |-> [ticker |-> TickerES],
                         period |-> [multiplier |-> 1, timespan |-> Minute],
                         from |-> 0, to |-> 1]),
       data |-> Normalize(BarsB), timestamp |-> 0]>>

SavedItems ==
    {NoItem, SaveToLocalStorage(SavedEntries, CacheConfigOf(2, ExpArg, TRUE), NoItem, TRUE)}

\* The page is reloaded now and then: the instance is dropped and a new one is
\* constructed over whatever the browser holds.
NextPersist ==
    \/ NextOver(PersistRequests, {1})
    \/ \E m \in MaxEntriesArgs, p \in BOOLEAN : Construct(m, ExpArg, p, FALSE)

\* The first instance of the page, constructed at the load with or without
\* persistence.
InitPersist ==
    /\ \E m \in MaxEntriesArgs, p \in BOOLEAN, item \in SavedItems :
          LET cfg == CacheConfigOf(m, ExpArg, p)
          IN  \E readOk \in ReadOutcomes(cfg) :
                 LET init == InitializeCache(cfg, item, readOk, 0)
                 IN  /\ cacheConfig = cfg
                     /\ cache = init.cache
                     /\ \E ok \in SetItemOutcomes(cfg) :
                           storage = IF init.removed
                                     THEN SaveToLocalStorage(init.cache, cfg, item, ok)
                                     ELSE item
    /\ now = 0
    /\ issued = 1
    /\ calls = [c \in Calls |-> IdleCall]
    /\ last = NoOp
    /\ instrumentsCache = NoCatalog
    /\ searching = [c \in SearchCalls |-> IdleSearch]
    /\ listed = NoListing
    /\ peer = NoPeer

SpecPersist == InitPersist /\ [][NextPersist]_vars

\* A page with two instances: beside its first instance it constructs a second
\* one, and calls now the one, now the other.
NextPage ==
    \/ NextOver(PersistRequests, {1})
    \/ \E p \in BOOLEAN : ~peer.present /\ Construct(2, ExpArg, p, TRUE)
    \/ Refocus

\* The first instance, with room for two entries, in a browser that holds no
\* saved item.
InitPage == InitPersist /\ storage = NoItem /\ cacheConfig.maxEntries = 2

SpecPage == InitPage /\ [][NextPage]_vars

\* ------------------------------------------------- cleanExpiredEntries alone
\* The stores an instance can hold beyond its capacity when cleanExpiredEntries
\* runs: two or three entries (calls that overlap insert without evicting, a
\* saved item may come from an instance with more room), in any order of their
\* timestamps (cache.set of a stored key keeps its place).
EvictionEntries ==
    [key : {CacheKey(r) : r \in Requests}, data : {Normalize(BarsA)}, timestamp : 0..MaxTime]

EvictionStores ==
    {m \in UNION {[1..n -> EvictionEntries] : n \in 2..3} :
        \A i \in 1..Len(m), j \in 1..Len(m) : m[i].key = m[j].key => i = j}

InitEvict ==
    /\ \E m \in MaxEntriesArgs : cacheConfig = CacheConfigOf(m, ExpArg, FALSE)
    /\ cache \in EvictionStores
    /\ now \in 0..MaxTime
    /\ \A i \in 1..Len(cache) : cache[i].timestamp <= now
    /\ storage = NoItem
    /\ issued = 1
    /\ calls = [c \in Calls |-> IdleCall]
    /\ last = NoOp
    /\ instrumentsCache = NoCatalog
    /\ searching = [c \in SearchCalls |-> IdleSearch]
    /\ listed = NoListing
    /\ peer = NoPeer

\* One run of cleanExpiredEntries.
CleanRun ==
    LET cleaned == CleanExpiredEntries(cache, now, cacheConfig)
    IN  /\ cache' = cleaned.cache
        /\ \E ok \in SetItemOutcomes(cacheConfig) :
              storage' = IF cleaned.removed
                         THEN SaveToLocalStorage(cleaned.cache, cacheConfig, storage, ok)
                         ELSE storage
        /\ UNCHANGED <<peer, catalogVars, cacheConfig, now, issued, calls, last>>

NextEvict == Tick \/ CleanRun

SpecEvict == InitEvict /\ [][NextEvict]_vars

\* ------------------------------------------------- the instruments catalog
\* The characters of the catalog and of the search terms: Basic Latin, the
\* Latin-1 Supplement, the Greek capitals with their small letters, U+0130 and
\* U+0307, and the white space of ECMAScript.  A character that is not a
\* printable ASCII character is written by its code point.
UpperCase ==
    <<"A", "B", "C", "D", "E", "F", "G", "H", "I", "J", "K", "L", "M", "N", "O", "P",
      "Q", "R", "S", "T", "U", "V", "W", "X", "Y", "Z", "U+00C0", "U+00C1", "U+00C2",
      "U+00C3", "U+00C4", "U+00C5", "U+00C6", "U+00C7", "U+00C8", "U+00C9", "U+00CA",
      "U+00CB", "U+00CC", "U+00CD", "U+00CE", "U+00CF", "U+00D0", "U+00D1", "U+00D2",
      "U+00D3", "U+00D4", "U+00D5", "U+00D6", "U+00D8", "U+00D9", "U+00DA", "U+00DB",
      "U+00DC", "U+00DD", "U+00DE", "U+0391", "U+0392", "U+0393", "U+0394", "U+0395",
      "U+0396", "U+0397", "U+0398", "U+0399", "U+039A", "U+039B", "U+039C", "U+039D",
      "U+039E", "U+039F", "U+03A0", "U+03A1", "U+03A4", "U+03A5", "U+03A6", "U+03A7",
      "U+03A8", "U+03A9">>
LowerCase ==
    <<"a", "b", "c", "d", "e", "f", "g", "h", "i", "j", "k", "l", "m", "n", "o", "p",
      "q", "r", "s", "t", "u", "v", "w", "x", "y", "z", "U+00E0", "U+00E1", "U+00E2",
      "U+00E3", "U+00E4", "U+00E5", "U+00E6", "U+00E7", "U+00E8", "U+00E9", "U+00EA",
      "U+00EB", "U+00EC", "U+00ED", "U+00EE", "U+00EF", "U+00F0", "U+00F1", "U+00F2",
      "U+00F3", "U+00F4", "U+00F5", "U+00F6", "U+00F8", "U+00F9", "U+00FA", "U+00FB",
      "U+00FC", "U+00FD", "U+00FE", "U+03B1", "U+03B2", "U+03B3", "U+03B4", "U+03B5",
      "U+03B6", "U+03B7", "U+03B8", "U+03B9", "U+03BA", "U+03BB", "U+03BC", "U+03BD",
      "U+03BE", "U+03BF", "U+03C0", "U+03C1", "U+03C4", "U+03C5", "U+03C6", "U+03C7",
      "U+03C8", "U+03C9">>

CapitalSigma == "U+03A3"
SmallSigma == "U+03C3"
FinalSigma == "U+03C2"
CapitalDottedI == "U+0130"
CombiningDotAbove == "U+0307"

\* The letters with a case (Unicode Cased): the pairs above, sigma, the dotted
\* capital I, and the small letters that have no capital of their own.
Cased(ch) ==
    \/ \E k \in 1..Len(UpperCase) : ch = UpperCase[k] \/ ch = LowerCase[k]
    \/ ch \in {CapitalSigma, SmallSigma, FinalSigma, CapitalDottedI,
               "U+00AA", "U+00B5", "U+00BA", "U+00DF", "U+00FF"}

\* Unicode Case_Ignorable: marks, the punctuation that may stand inside a word,
\* and the format characters (the soft hyphen, the zero width no-break space).
CaseIgnorable(ch) ==
    ch \in {"'", ".", ":", "^", "U+0060", "U+00A8", "U+00AD", "U+00AF", "U+00B4",
            "U+00B7", "U+00B8", CombiningDotAbove, "U+FEFF"}

\* SpecialCasing's Final_Sigma: the sigma at s[i] ends a word, that is, a cased
\* letter comes before it and none after it, case-ignorable characters aside.
IsFinalSigma(s, i) ==
    /\ \E j \in 1..(i - 1) :
          Cased(s[j]) /\ \A k \in (j + 1)..(i - 1) : CaseIgnorable(s[k])
    /\ ~\E j \in (i + 1)..Len(s) :
          Cased(s[j]) /\ \A k \in (i + 1)..(j - 1) : CaseIgnorable(s[k])

\* The lower case of the character at s[i]: one character, or two for U+0130.
LowerAt(s, i) ==
    IF s[i] = CapitalSigma
    THEN <<IF IsFinalSigma(s, i) THEN FinalSigma ELSE SmallSigma>>
    ELSE IF s[i] = CapitalDottedI THEN <<"i", CombiningDotAbove>>
    ELSE IF \E k \in 1..Len(UpperCase) : UpperCase[k] = s[i]
    THEN <<LowerCase[CHOOSE k \in 1..Len(UpperCase) : UpperCase[k] = s[i]]>>
    ELSE <<s[i]>>

RECURSIVE LowerFrom(_, _)
LowerFrom(s, i) == IF i > Len(s) THEN <<>> ELSE LowerAt(s, i) \o LowerFrom(s, i + 1)

\* String.prototype.toLowerCase
ToLowerCase(s) == LowerFrom(s, 1)

\* ECMAScript's WhiteSpace and LineTerminator, the characters trim() strips.
WhiteSpace ==
    {"\t", "\n", "U+000B", "\f", "\r", " ", "U+00A0", "U+1680", "U+2000", "U+2001",
     "U+2002", "U+2003", "U+2004", "U+2005", "U+2006", "U+2007", "U+2008", "U+2009",
     "U+200A", "U+2028", "U+2029", "U+202F", "U+205F", "U+3000", "U+FEFF"}

\* String.prototype.trim
RECURSIVE Trim(_)
Trim(s) ==
    IF s = <<>> THEN s
    ELSE IF s[1] \in WhiteSpace THEN Trim(Tail(s))
    ELSE IF s[Len(s)] \in WhiteSpace THEN Trim(SubSeq(s, 1, Len(s) - 1))
    ELSE s

\* A string field of an object off the wire: the string, or undefined when the
\* object does not have the field.
Unset == [present |-> FALSE, s |-> <<>>]
Str(s) == [present |-> TRUE, s |-> s]

\* An Instrument of the catalog.
Instrument(symbol, name, shortName, exchange, market, type) ==
    [isNull |-> FALSE, symbol |-> symbol, name |-> name, shortName |-> shortName,
     exchange |-> exchange, market |-> market, type |-> type]

\* A null among the instruments.
NullInstrument ==
    [isNull |-> TRUE, symbol |-> Unset, name |-> Unset, shortName |-> Unset,
     exchange |-> Unset, market |-> Unset, type |-> Unset]

\* response.instruments: an array, or undefined when the response has no such
\* field.
InstrumentList(items) == [isArray |-> TRUE, items |-> items]
NoInstruments == [isArray |-> FALSE, items |-> <<>>]

\* x || fallback on strings: undefined and '' are falsy.
OrElse(x, fallback) == IF x.present /\ x.s # <<>> THEN x ELSE fallback

\* x || '' on strings.
OrEmpty(x) == IF x.present THEN x.s ELSE <<>>

Unknown == <<"U", "N", "K", "N", "O", "W", "N">>

\* Mutant: name and shortName are always the symbol.
InstrumentToSymbolInfoDropsNames(instrument) ==
    [ticker |-> instrument.symbol,
     name |-> instrument.symbol,
     shortName |-> instrument.symbol,
     exchange |-> OrElse(instrument.exchange, Str(Unknown)),
     market |-> OrElse(instrument.market, Str(Unknown)),
     type |-> OrElse(instrument.type, Str(Unknown))]

\* instrumentToSymbolInfo of an instrument that is not null or undefined (on
\* those it throws); a ticker, name or short name may come out undefined.
InstrumentToSymbolInfo(instrument) ==
    [ticker |-> instrument.symbol,
     name |-> OrElse(instrument.name, instrument.symbol),
     shortName |-> OrElse(instrument.shortName, instrument.symbol),
     exchange |-> OrElse(instrument.exchange, Str(Unknown)),
     market |-> OrElse(instrument.market, Str(Unknown)),
     type |-> OrElse(instrument.type, Str(Unknown))]

\* The descriptor searchSymbols returns when it has no instruments, or when
\* anything it did threw.
NameES == <<"E", "-", "m", "i", "n", "i", " ", "S", "&", "P", " ", "5", "0", "0">>
FallbackES ==
    [ticker |-> Str(TickerES), name |-> Str(NameES), shortName |-> Str(TickerES),
     exchange |-> Str(<<"C", "M", "E">>),
     market |-> Str(<<"F", "U", "T", "U", "R", "E", "S">>),
     type |-> Str(<<"F", "U", "T">>)]

\* The filter callback of searchSymbols, on a symbol whose ticker is a string
\* (on an undefined ticker it throws).
SymbolMatches(symbol, searchLower) ==
    \/ Includes(ToLowerCase(symbol.ticker.s), searchLower)
    \/ Includes(ToLowerCase(OrEmpty(symbol.name)), searchLower)
    \/ Includes(ToLowerCase(OrEmpty(symbol.shortName)), searchLower)

\* search && search.trim()
HasFilter(hasSearch, search) == hasSearch /\ search # <<>> /\ Trim(search) # <<>>

\* The try block of searchSymbols throws: instruments.length of undefined,
\* instrument.symbol of a null instrument, or, when the filter runs,
\* symbol.ticker.toLowerCase() of an instrument without a symbol.
SearchSymbolsThrows(instruments, hasSearch, search) ==
    \/ ~instruments.isArray
    \/ \E i \in 1..Len(instruments.items) : instruments.items[i].isNull
    \/ /\ HasFilter(hasSearch, search)
       /\ \E i \in 1..Len(instruments.items) : ~instruments.items[i].symbol.present

\* How the promise of searchSymbols settles.
ResolvedWith(symbols) == [settled |-> "resolved", symbols |-> symbols]
RejectedSearch == [settled |-> "rejected", symbols |-> <<>>]

\* Mutant: what the try block throws rejects the call.
SearchSymbolsResultWithoutCatch(instruments, hasSearch, search) ==
    LET items == instruments.items
        symbolInfos == [i \in 1..Len(items) |-> InstrumentToSymbolInfo(items[i])]
        searchLower == Trim(ToLowerCase(search))
    IN  IF SearchSymbolsThrows(instruments, hasSearch, search) THEN RejectedSearch
        ELSE IF Len(items) = 0 THEN ResolvedWith(<<FallbackES>>)
        ELSE IF HasFilter(hasSearch, search)
        THEN ResolvedWith(SelectSeq(symbolInfos,
                                    LAMBDA symbol : SymbolMatches(symbol, searchLower)))
        ELSE ResolvedWith(symbolInfos)

\* What searchSymbols(search) returns once getInstruments gave it instruments:
\* the hardcoded ES from the catch when the try block threw and from the
\* length test when there are no instruments, otherwise the descriptors, those
\* the filter keeps when there is a term.
SearchSymbolsResult(instruments, hasSearch, search) ==
    LET items == instruments.items
        symbolInfos == [i \in 1..Len(items) |-> InstrumentToSymbolInfo(items[i])]
        searchLower == Trim(ToLowerCase(search))
    IN  IF SearchSymbolsThrows(instruments, hasSearch, search)
        THEN ResolvedWith(<<FallbackES>>)
        ELSE IF Len(items) = 0 THEN ResolvedWith(<<FallbackES>>)
        ELSE IF HasFilter(hasSearch, search)
        THEN ResolvedWith(SelectSeq(symbolInfos,
                                    LAMBDA symbol : SymbolMatches(symbol, searchLower)))
        ELSE ResolvedWith(symbolInfos)

\* The catalogs instrumentsApi.getAll() resolves with.
NameNQ == <<"E", "-", "m", "i", "n", "i", " ", "N", "a", "s", "d", "a", "q">>
NamePetrole == <<"P", "U+00C9", "T", "R", "O", "L", "E">>
CME == Str(<<"C", "M", "E">>)

InstrES ==
    Instrument(Str(TickerES), Str(NameES), Unset, CME,
               Str(<<"F", "U", "T", "U", "R", "E", "S">>), Str(<<"F", "U", "T">>))
InstrNQ ==
    Instrument(Str(TickerNQ), Str(NameNQ), Str(<<"M", "N", "Q">>), CME, Str(<<>>), Unset)
InstrCL == Instrument(Str(<<"C", "L">>), Str(NamePetrole), Str(<<>>), Unset, Unset, Unset)
InstrNoSymbol == Instrument(Unset, Str(NameNQ), Unset, CME, Unset, Unset)

Catalogs ==
    {InstrumentList(<<InstrES, InstrNQ, InstrCL>>),
     InstrumentList(<<>>),
     InstrumentList(<<InstrES, InstrNoSymbol>>),
     InstrumentList(<<InstrES, NullInstrument>>),
     NoInstruments}

\* The search terms of the symbol dialog.
SearchTerms ==
    {<<"\t", "M", "i", "N", "i", " ">>, <<"p", "U+00E9">>, <<"z", "z">>, <<" ", "U+00A0">>}

\* 5 * 60 * 1000
instrumentsCacheExpiry == 300000

\* The instants of a run, around the expiry of a slot stamped 0 or 1.
CatalogInstants ==
    {0, 1, instrumentsCacheExpiry - 1, instrumentsCacheExpiry, instrumentsCacheExpiry + 1}

\* A searchSymbols call resolving: how getInstruments got the instruments
\* ("cached", "fetched", "stale" after a failed fetch, "none" when there was
\* nothing to fall back to), how old the stamp of the slot was as the call
\* returned, and the result.
Listed(hasSearch, search, source, instruments, age) ==
    [op |-> "search", hasSearch |-> hasSearch, search |-> search, source |-> source,
     instruments |-> instruments, age |-> age,
     result |-> SearchSymbolsResult(instruments, hasSearch, search)]

\* Time passes.
Elapse ==
    /\ \E t \in CatalogInstants : t > now /\ now' = t
    /\ UNCHANGED <<peer, cacheConfig, cache, storage, issued, calls, last, catalogVars>>

\* Mutant: the slot expires with the window of the OHLCV cache instead of its
\* own five minutes.
SearchSymbolsUsesCacheWindow(c, hasSearch, search) ==
    /\ searching[c].pc = "idle"
    /\ IF instrumentsCache.present
          /\ (now - instrumentsCache.timestamp) < cacheConfig.expirationTime
       THEN /\ listed' = Listed(hasSearch, search, "cached", instrumentsCache.instruments,
                                now - instrumentsCache.timestamp)
            /\ UNCHANGED <<instrumentsCache, searching>>
       ELSE /\ searching' = [searching EXCEPT ![c] =
                                [pc |-> "getAll", hasSearch |-> hasSearch,
                                 search |-> search, now |-> now]]
            /\ UNCHANGED <<instrumentsCache, listed>>
    /\ UNCHANGED <<peer, cacheConfig, cache, storage, now, issued, calls, last>>

\* searchSymbols(search?) up to the await in getInstruments, as call c of those
\* that may be in flight at once: a slot whose stamp is younger than the expiry
\* answers the call, otherwise instrumentsApi.getAll() is awaited.
SearchSymbols(c, hasSearch, search) ==
    /\ searching[c].pc = "idle"
    /\ IF instrumentsCache.present
          /\ (now - instrumentsCache.timestamp) < instrumentsCacheExpiry
       THEN /\ listed' = Listed(hasSearch, search, "cached", instrumentsCache.instruments,
                                now - instrumentsCache.timestamp)
            /\ UNCHANGED <<instrumentsCache, searching>>
       ELSE /\ searching' = [searching EXCEPT ![c] =
                                [pc |-> "getAll", hasSearch |-> hasSearch,
                                 search |-> search, now |-> now]]
            /\ UNCHANGED <<instrumentsCache, listed>>
    /\ UNCHANGED <<peer, cacheConfig, cache, storage, now, issued, calls, last>>

\* Mutant: a failed fetch falls back to the slot only while the slot is fresh.
GetAllResultDropsExpiredSlot(c) ==
    /\ searching[c].pc = "getAll"
    /\ \/ \E instruments \in Catalogs :
             /\ instrumentsCache' = [present |-> TRUE, instruments |-> instruments,
                                     timestamp |-> searching[c].now]
             /\ listed' = Listed(searching[c].hasSearch, searching[c].search, "fetched",
                                 instruments, now - searching[c].now)
       \/ /\ UNCHANGED instrumentsCache
          /\ listed' = IF instrumentsCache.present
                          /\ (now - instrumentsCache.timestamp) < instrumentsCacheExpiry
                       THEN Listed(searching[c].hasSearch, searching[c].search, "stale",
                                   instrumentsCache.instruments,
                                   now - instrumentsCache.timestamp)
                       ELSE Listed(searching[c].hasSearch, searching[c].search, "none",
                                   InstrumentList(<<>>), 0)
    /\ searching' = [searching EXCEPT ![c] = IdleSearch]
    /\ UNCHANGED <<peer, cacheConfig, cache, storage, now, issued, calls, last>>

\* instrumentsApi.getAll() settles for call c and searchSymbols runs to its
\* end.  A response fills the slot with its instruments, stamped with the
\* Date.now() the call read before the await, whatever another call put there
\* meanwhile.  A rejection, and a response of null or undefined (reading
\* response.instruments throws inside the try), falls back to the slot, however
\* old, or to no instruments.
GetAllResult(c) ==
    /\ searching[c].pc = "getAll"
    /\ \/ \E instruments \in Catalogs :
             /\ instrumentsCache' = [present |-> TRUE, instruments |-> instruments,
                                     timestamp |-> searching[c].now]
             /\ listed' = Listed(searching[c].hasSearch, searching[c].search, "fetched",
                                 instruments, now - searching[c].now)
       \/ /\ UNCHANGED instrumentsCache
          /\ listed' = IF instrumentsCache.present
                       THEN Listed(searching[c].hasSearch, searching[c].search, "stale",
                                   instrumentsCache.instruments,
                                   now - instrumentsCache.timestamp)
                       ELSE Listed(searching[c].hasSearch, searching[c].search, "none",
                                   InstrumentList(<<>>), 0)
    /\ searching' = [searching EXCEPT ![c] = IdleSearch]
    /\ UNCHANGED <<peer, cacheConfig, cache, storage, now, issued, calls, last>>

\* The symbol dialog searches while a listing of the whole catalog may be in
\* flight beside it.
NextCatalog ==
    \/ Elapse
    \/ \E c \in SearchCalls : SearchSymbols(c, FALSE, <<>>)
    \/ \E search \in SearchTerms : SearchSymbols(1, TRUE, search)
    \/ \E c \in SearchCalls : GetAllResult(c)

SpecCatalog == Init /\ [][NextCatalog]_vars

\* --------------------------------------------- the catalog beside the store
\* A store beyond its capacity, as overlapping calls leave it.
SlotStore ==
    <<[key |-> CacheKey([symbol |-> [ticker |-> TickerES],
                         period |-> [multiplier |-> 1, timespan |-> Minute],
                         from |-> 0, to |-> 1]),
       data |-> Normalize(BarsA), timestamp |-> 0],
      [key |-> CacheKey([symbol |-> [ticker |-> TickerES],
                         period |-> [multiplier |-> 1, timespan |-> Day],
                         from |-> 0, to |-> 1]),
       data |-> Normalize(BarsA), timestamp |-> 0],
      [key |-> CacheKey([symbol |-> [ticker |-> TickerNQ],
                         period |-> [multiplier |-> 1, timespan |-> Minute],
                         from |-> 0, to |-> 1]),
       data |-> Normalize(BarsA), timestamp |-> 0]>>

InitSlot ==
    /\ \E m \in MaxEntriesArgs : cacheConfig = CacheConfigOf(m, ExpArg, FALSE)
    /\ cache = SlotStore
    /\ storage = NoItem
    /\ now = 0
    /\ issued = 1
    /\ calls = [c \in Calls |-> IdleCall]
    /\ last = NoOp
    /\ instrumentsCache = NoCatalog
    /\ searching = [c \in SearchCalls |-> IdleSearch]
    /\ listed = NoListing
    /\ peer = NoPeer

\* The symbol dialog lists the catalog while the store is cleared and pruned.
NextSlot ==
    \/ Elapse
    \/ \E c \in SearchCalls : SearchSymbols(c, FALSE, <<>>)
    \/ \E c \in SearchCalls : GetAllResult(c)
    \/ CleanRun
    \/ ClearCache(FALSE, NoSymbol, FALSE, NoPeriod)
    \/ \E s \in Symbols : ClearCache(TRUE, s, FALSE, NoPeriod)

SpecSlot == InitSlot /\ [][NextSlot]_vars

\* ================================================================== claims
\* The expiration window of the instance.
Window == cacheConfig.expirationTime

\* The HTTP requests of a call's trace.
HttpEvents(tr) == SelectSeq(tr, LAMBDA e : e.type = "http")
RefreshEvents(tr) == SelectSeq(tr, LAMBDA e : e.type = "refresh")

\* The last operation was a successful fetch of r whose insertion is at most one
\* expiration window old: no clearCache and no other call came after it.
FirstCallStored(r) ==
    /\ last.op = "fetch"
    /\ last.outcome = "fetched"
    /\ last.req = r
    /\ now - last.storedAt <= Window

\* The call for r that starts in this step is answered from the cache, without a
\* token lookup or an HTTP request, with the series the call before it stored.
SecondCallServedFromCache(r) ==
    /\ calls' = calls
    /\ last'.op = "fetch"
    /\ last'.outcome = "hit"
    /\ last'.req = r
    /\ last'.trace = <<>>
    /\ last'.data = last.data

\* C1 (as amended): a call that repeats the arguments of the successful call just
\* before it, with no clearCache in between, and whose lookup reads the clock
\* within the expiration window of that call's insertion, issues no HTTP request
\* and returns the series the first call stored; the requests made in total are
\* those of the first call: one, or two when its first request was answered 401
\* and retried after a refresh.
C1_SecondCallIssuesNoRequest ==
    [][\A r \in Requests :
          (Start(1, r) /\ FirstCallStored(r) /\ now' - last.storedAt <= Window) =>
              /\ SecondCallServedFromCache(r)
              /\ Len(HttpEvents(last.trace)) + Len(HttpEvents(last'.trace))
                    = IF last.trace[2].status = 401 THEN 2 ELSE 1]_vars

\* C1 as stated: exactly one HTTP request is made by the two calls together.
C1_ExactlyOneRequestInTotal ==
    [][\A r \in Requests :
          (Start(1, r) /\ FirstCallStored(r)) =>
              /\ SecondCallServedFromCache(r)
              /\ Len(HttpEvents(last.trace)) + Len(HttpEvents(last'.trace)) = 1]_vars

\* A hit that follows a fetch which needed the 401 retry cannot be told from the
\* state; the witness is a hit served in the instant of the insertion.
C1_Witness ==
    /\ last.op = "fetch"
    /\ last.outcome = "hit"
    /\ last.age = 0
    /\ \E i \in 1..Len(cache) :
          /\ cache[i].key = CacheKey(last.req)
          /\ cache[i].data = last.data
          /\ cache[i].timestamp = now

\* The entries of the store that have not expired at time t.
LiveEntries(t) == {i \in 1..Len(cache) : t - cache[i].timestamp <= Window}

\* Entry i is one of those the capacity rule removes at time t: it has not
\* expired, and fewer of the entries that have not expired are older than it than
\* the store holds beyond maxEntries (of two entries of one timestamp the one
\* inserted first is the older).
EvictedByCapacity(i, t) ==
    LET live == LiveEntries(t)
        older == {j \in live : \/ cache[j].timestamp < cache[i].timestamp
                               \/ /\ cache[j].timestamp = cache[i].timestamp
                                  /\ j < i}
    IN  /\ i \in live
        /\ Cardinality(older) < Cardinality(live) - cacheConfig.maxEntries

\* The call for r that starts in this step is answered with the series of entry i.
HitOn(r, i) ==
    /\ calls' = calls
    /\ last' = Returned(r, "hit", cache[i].data, <<>>, cache[i].timestamp,
                        now' - cache[i].timestamp)

\* The call for r that starts in this step goes on to fetch.
MissOn(r) ==
    /\ calls'[1].pc = "token"
    /\ calls'[1].req = r
    /\ last' = last

\* C2 as stated: an entry stored at T is a hit at every time t with
\* t - T <= expirationWindow and a miss that goes on to fetch at every t with
\* t - T > expirationWindow; no hit returns a series older than the window, and
\* the lookup test and the eviction test agree on the boundary.
C2_HitAtEveryTimeWithinTheWindow ==
    [][\A r \in Requests :
          Start(1, r) =>
              /\ \A i \in 1..Len(cache) :
                    cache[i].key = CacheKey(r) =>
                        /\ (now' - cache[i].timestamp <= Window) => HitOn(r, i)
                        /\ (now' - cache[i].timestamp > Window) => MissOn(r)
                        /\ IsExpired(cache[i], now, cacheConfig)
                              = ~IsFresh(cache[i], now, cacheConfig)
              /\ (calls' = calls) =>
                    /\ last'.outcome = "hit"
                    /\ last'.age <= Window]_vars

\* C2 (as amended): a call for a key whose entry, stored at T, is in the store,
\* the lookup reading the clock at t (now', the instant the call's first step
\* ends at).  When the capacity rule run at the start of the call does not evict
\* the entry, t - T <= expirationWindow (the boundary included) makes the call a
\* hit that returns that entry's series, and t - T > expirationWindow a miss that
\* goes on to fetch.  When the capacity rule evicts the entry, the call is a miss
\* whatever the entry's age.  The entry leaves the store in that step when the
\* capacity rule evicts it or when it had expired already as the eviction test
\* read the clock.  No hit returns a series older than the window, and at one
\* instant the lookup test and the eviction test agree, the boundary being live.
C2_ExpiryAtLookup ==
    [][\A r \in Requests :
          Start(1, r) =>
              /\ \A i \in 1..Len(cache) :
                    cache[i].key = CacheKey(r) =>
                        /\ (/\ now' - cache[i].timestamp <= Window
                            /\ ~EvictedByCapacity(i, now)) => HitOn(r, i)
                        /\ (\/ now' - cache[i].timestamp > Window
                            \/ EvictedByCapacity(i, now)) => MissOn(r)
                        /\ MapHas(cache', CacheKey(r))
                              = ~(\/ now - cache[i].timestamp > Window
                                  \/ EvictedByCapacity(i, now))
                        /\ IsExpired(cache[i], now, cacheConfig)
                              = ~IsFresh(cache[i], now, cacheConfig)
              /\ (calls' = calls) =>
                    /\ last'.outcome = "hit"
                    /\ last'.age = now' - last'.storedAt
                    /\ last'.age <= Window]_vars

\* A hit on the boundary: the entry served is exactly one window old.
C2_Witness ==
    /\ last.op = "fetch"
    /\ last.outcome = "hit"
    /\ last.age = Window

\* C3 as stated: eviction runs after every insertion, so whenever a call has
\* returned the store holds at most maxEntries entries.
C3_StoreWithinCapacityAfterReturn ==
    (last.op = "fetch" /\ last.outcome # "error") => Len(cache) <= cacheConfig.maxEntries

\* ------------------------------------------------- one call's requests
\* The wire shapes the spec lists: a top-level array, or an array under data,
\* results, ohlcv or values.
SupportedShape(body) ==
    \/ body.kind = "array"
    \/ /\ body.kind = "object"
       /\ \/ body.data.present /\ body.data.isArray
          \/ body.results.present /\ body.results.isArray
          \/ body.ohlcv.present /\ body.ohlcv.isArray
          \/ body.values.present /\ body.values.isArray

\* An HTTP request that was answered 2xx with a body of a supported shape.
Succeeded(ev) ==
    /\ ev.type = "http"
    /\ ev.res = "answered"
    /\ ResponseOk(ev.status)
    /\ SupportedShape(ev.body)

\* The last operation is a getHistoryKLineData call that missed the cache and
\* got a token, and whose first request was answered with this status.
FirstAnswered(status) ==
    /\ last.op = "fetch"
    /\ Len(last.trace) >= 2
    /\ last.trace[1].type = "token" /\ last.trace[1].res = "ok"
    /\ last.trace[2].type = "http" /\ last.trace[2].res = "answered"
    /\ last.trace[2].status = status

\* The last call inserted nothing: an entry for its key, if the store holds one,
\* was stored more than a window ago (an entry that expired between the two
\* clock reads of the call stays in the store, and the lookup passes over it).
NothingInsertedForLastKey ==
    \A i \in 1..Len(cache) :
        cache[i].key = CacheKey(last.req) => now - cache[i].timestamp > Window

\* C4: first request 401, the refresh succeeds, the retried request succeeds: the
\* call returns the series of the retried response, after exactly two HTTP
\* requests with exactly one refresh between them, the second request carrying
\* the token the refresh returned and not the token of the first.
C4_RetryWithRefreshedToken ==
    (/\ FirstAnswered(401)
     /\ \A i \in 3..Len(last.trace) :
           \/ last.trace[i].type = "refresh" /\ last.trace[i].res = "ok"
           \/ Succeeded(last.trace[i]))
    => /\ last.outcome = "fetched"
       /\ Len(last.trace) = 4
       /\ last.trace[3].type = "refresh"
       /\ last.trace[4].type = "http"
       /\ last.trace[4].tok = last.trace[3].tok
       /\ last.trace[4].tok # last.trace[2].tok
       /\ last.data = Normalize(DetectShape(last.trace[4].body).rawData)

C4_Witness ==
    /\ FirstAnswered(401)
    /\ last.outcome = "fetched"
    /\ Len(HttpEvents(last.trace)) = 2
    /\ last.data # <<>>

\* The last call's first request was answered 401 and its refresh failed.
RefreshFailed ==
    /\ FirstAnswered(401)
    /\ Len(last.trace) >= 3
    /\ last.trace[3].type = "refresh"
    /\ last.trace[3].res \in {"error", "nosession"}

\* C5: first request 401 and the refresh fails (an error, or no session): the call
\* fails with AuthenticationFailed, no second HTTP request is issued and no entry
\* is inserted for the key.
C5_FailedRefreshEndsTheCall ==
    RefreshFailed
    => /\ last.outcome = "error"
       /\ last.err = AuthenticationFailed
       /\ Len(last.trace) = 3
       /\ Len(HttpEvents(last.trace)) = 1
       /\ NothingInsertedForLastKey

C5_Witness ==
    /\ RefreshFailed
    /\ last.trace[3].res = "nosession"
    /\ last.err = AuthenticationFailed

\* The last call's first request was answered 401, its refresh succeeded and its
\* retried request was answered with a non-2xx status.
RetryRefused ==
    /\ FirstAnswered(401)
    /\ Len(last.trace) >= 4
    /\ last.trace[3].type = "refresh" /\ last.trace[3].res = "ok"
    /\ last.trace[4].type = "http" /\ last.trace[4].res = "answered"
    /\ ~ResponseOk(last.trace[4].status)

\* C6 as stated: the retried request failing makes the call fail with
\* AuthenticationFailed.
C6_RetryFailureIsAuthenticationFailed ==
    RetryRefused => (last.outcome = "error" /\ last.err = AuthenticationFailed)

\* C6 (as amended): first request 401, the refresh succeeds, the retried request
\* is answered non-2xx (a second 401 included): the call fails with
\* RemoteRequestFailed carrying the retried request's status, the error of a
\* non-401 failure of the first request and not AuthenticationFailed; nothing is
\* retried again.
C6_RetryFailureIsRemoteRequestFailed ==
    RetryRefused
    => /\ last.outcome = "error"
       /\ last.err = RemoteRequestFailed
       /\ last.err # AuthenticationFailed
       /\ last.status = last.trace[4].status
       /\ Len(last.trace) = 4

C6_Witness ==
    /\ RetryRefused
    /\ last.trace[4].status = 401
    /\ last.err = RemoteRequestFailed
    /\ last.status = 401

\* An event after which the call must make no further request or refresh: every
\* failure but a 401 on the first request (position 2 of the trace).
EndsTheCall(tr, i) ==
    \/ tr[i].type = "token" /\ tr[i].res # "ok"
    \/ tr[i].type = "refresh" /\ tr[i].res \in {"error", "nosession"}
    \/ tr[i].type = "http" /\ tr[i].res = "rejected"
    \/ tr[i].type = "http" /\ tr[i].res = "answered" /\ ~ResponseOk(tr[i].status)
          /\ ~(i = 2 /\ tr[i].status = 401)
    \/ tr[i].type = "http" /\ tr[i].res = "answered" /\ ResponseOk(tr[i].status)

\* At most one refresh, only right after a 401 on the first request; at most two
\* HTTP requests, the second only after a successful refresh; nothing after an
\* event that ends the call.
SingleRetry(tr) ==
    /\ Len(RefreshEvents(tr)) <= 1
    /\ Len(HttpEvents(tr)) <= 2
    /\ \A i \in 1..Len(tr) :
          /\ tr[i].type = "token" => i = 1
          /\ tr[i].type = "refresh" =>
                /\ i = 3
                /\ tr[2].type = "http" /\ tr[2].res = "answered" /\ tr[2].status = 401
          /\ tr[i].type = "http" =>
                \/ i = 2 /\ tr[1].type = "token" /\ tr[1].res = "ok"
                \/ i = 4 /\ tr[3].type = "refresh" /\ tr[3].res = "ok"
          /\ EndsTheCall(tr, i) => i = Len(tr)

\* C7: in every call, in flight or settled, the refresh is invoked at most once
\* and only after a 401 on the first request, at most two HTTP requests are
\* issued, and no other failure is followed by a request or a refresh.
C7_AtMostOneRefreshAndTwoRequests ==
    /\ \A c \in Calls : SingleRetry(calls[c].trace)
    /\ SingleRetry(last.trace)

\* A call whose retried request failed on the network, and that ended there.
C7_Witness ==
    /\ FirstAnswered(401)
    /\ Len(last.trace) = 4
    /\ last.trace[4].type = "http"
    /\ last.trace[4].res = "rejected"
    /\ last.outcome = "error"
    /\ calls[1].pc = "idle"

\* C8: a cache miss with no token (no session, or the lookup threw): the call
\* fails with AuthenticationRequired and issues no HTTP request and no refresh.
C8_NoTokenNoRequest ==
    (/\ last.op = "fetch"
     /\ last.trace # <<>>
     /\ last.trace[1].type = "token"
     /\ last.trace[1].res \in {"null", "throw"})
    => /\ last.outcome = "error"
       /\ last.err = AuthenticationRequired
       /\ Len(last.trace) = 1
       /\ HttpEvents(last.trace) = <<>>
       /\ RefreshEvents(last.trace) = <<>>

C8_Witness ==
    /\ last.op = "fetch"
    /\ last.trace # <<>>
    /\ last.trace[1].res = "throw"
    /\ last.err = AuthenticationRequired

\* C9: a first request answered with a non-2xx status other than 401: the call
\* fails with RemoteRequestFailed carrying that status, the refresh is not
\* invoked and no entry is inserted for the key.
C9_OtherStatusFailsWithThatStatus ==
    \A status \in Statuses :
        (FirstAnswered(status) /\ ~ResponseOk(status) /\ status # 401)
        => /\ last.outcome = "error"
           /\ last.err = RemoteRequestFailed
           /\ last.status = status
           /\ Len(last.trace) = 2
           /\ RefreshEvents(last.trace) = <<>>
           /\ NothingInsertedForLastKey

C9_Witness ==
    /\ FirstAnswered(500)
    /\ last.err = RemoteRequestFailed
    /\ last.status = 500

\* C10 as stated: a 2xx body of none of the supported shapes makes the call fail
\* with MalformedResponse and leaves the store without an entry of this call for
\* the key.
C10_UnsupportedShapeIsMalformedResponse ==
    (/\ last.op = "fetch"
     /\ last.trace # <<>>
     /\ last.trace[Len(last.trace)].type = "http"
     /\ last.trace[Len(last.trace)].res = "answered"
     /\ ResponseOk(last.trace[Len(last.trace)].status)
     /\ last.trace[Len(last.trace)].body # BrokenBody
     /\ ~SupportedShape(last.trace[Len(last.trace)].body))
    => /\ last.outcome = "error"
       /\ last.err = MalformedResponse
       /\ NothingInsertedForLastKey

\* The HTTP request that ended the last call was rejected by fetch itself.
RequestRejected(tr) ==
    /\ tr # <<>>
    /\ tr[Len(tr)].type = "http"
    /\ tr[Len(tr)].res = "rejected"

\* The body of the answer that ended the last call was cut short by the
\* connection.
BodyBroken(tr) ==
    /\ tr # <<>>
    /\ tr[Len(tr)].type = "http"
    /\ tr[Len(tr)].res = "answered"
    /\ tr[Len(tr)].body = BrokenBody

\* The rejections of the network layer, which the code passes on as they are.
NetworkErrors == {NetworkUnavailable, BodyTerminated}

\* C11: a network-level failure of the HTTP request, the first or the retried
\* one, makes the call fail with NetworkUnavailable, an error distinct from
\* AuthenticationRequired, AuthenticationFailed, RemoteRequestFailed and
\* MalformedResponse; the call ends there, returns no series and inserts nothing.
\* So does a connection that breaks while the body of a 2xx answer is read, with
\* the rejection of response.json().
C11_NetworkFailureSurfaces ==
    /\ \A c \in Calls :
          \A i \in 1..Len(calls[c].trace) :
             /\ calls[c].trace[i].res # "rejected"
             /\ calls[c].trace[i].body # BrokenBody
    /\ (last.op = "fetch" /\ (RequestRejected(last.trace) \/ BodyBroken(last.trace)))
       => /\ last.outcome = "error"
          /\ last.err = IF RequestRejected(last.trace) THEN NetworkUnavailable
                        ELSE BodyTerminated
          /\ last.err \notin {AuthenticationRequired, AuthenticationFailed,
                              RemoteRequestFailed, MalformedResponse}
          /\ last.data = <<>>
          /\ NothingInsertedForLastKey
    /\ (last.op = "fetch" /\ last.err \in NetworkErrors)
       => (RequestRejected(last.trace) \/ BodyBroken(last.trace))

\* The first request of a call failed on the network.
C11_Witness ==
    /\ last.op = "fetch"
    /\ Len(last.trace) = 2
    /\ RequestRejected(last.trace)
    /\ last.err = NetworkUnavailable

\* ------------------------------------------------------------ wire shapes
\* The tuple [ts, o, h, l, c, v] that carries the values of a named-field item
\* { unix_time, open, high, low, close, volume }.
TupleOfNamed(item) ==
    TupleItem(item.unix_time, item.open, item.high, item.low, item.close, item.volume)

\* The body { data: [...] } of the last call's answer holds named-field items
\* with unix_time set and no timestamp field.
LastBody == last.trace[Len(last.trace)].body

NamedShapeFetched ==
    /\ last.op = "fetch"
    /\ last.outcome = "fetched"
    /\ LastBody.kind = "object"
    /\ LastBody.data.present /\ LastBody.data.isArray
    /\ \A i \in 1..Len(LastBody.data.items) :
          /\ ~LastBody.data.items[i].isArray
          /\ LastBody.data.items[i].hasUnix
          /\ ~LastBody.data.items[i].hasTs

\* C12 as stated: a named-field body normalizes to the records of the tuple body
\* that carries the same values: same length, same order, timestamp = ts * 1000,
\* same o/h/l/c/v, bars with unix_time 0 included.
C12_NamedShapeNormalizesAsTuples ==
    NamedShapeFetched
    => /\ Len(last.data) = Len(LastBody.data.items)
       /\ \A i \in 1..Len(last.data) :
             /\ last.data[i] = NormalizeItem(TupleOfNamed(LastBody.data.items[i]))
             /\ last.data[i].timestamp = Num(LastBody.data.items[i].unix_time * 1000)

\* ------------------------------------------------------------- clearCache
\* The request of reqs that an entry was stored for.
StoredFor(e, reqs) == CHOOSE r \in reqs : CacheKey(r) = e.key

\* C13 as stated: clearCache(X) removes exactly the entries whose instrument is
\* X and leaves the entries of every other instrument as they are, also those of
\* an instrument whose ticker starts with X followed by the separator.
C13_ClearInstrumentRemovesExactlyItsEntries ==
    [][\A s \in SymbolsOf(KeyRequests) :
          ClearCache(TRUE, s, FALSE, NoPeriod) =>
              cache' = SelectSeq(cache, LAMBDA e : StoredFor(e, KeyRequests).symbol # s)]_vars

\* C14 as stated: clearCache(X, P) removes exactly the entries of instrument X
\* and timeframe P; the entries of X with another timeframe stay, also one whose
\* encoded timeframe ends with the encoded P (multiplier 11 against 1).
C14_ClearTimeframeRemovesExactlyItsEntries ==
    [][\A s \in SymbolsOf(KeyRequests), p \in PeriodsOf(KeyRequests) :
          ClearCache(TRUE, s, TRUE, p) =>
              cache' = SelectSeq(cache, LAMBDA e :
                           ~(/\ StoredFor(e, KeyRequests).symbol = s
                             /\ StoredFor(e, KeyRequests).period = p))]_vars

\* The arguments clearCache is called with: any symbol or none, any period or none.
ClearArgs ==
    {<<FALSE, NoSymbol, FALSE, NoPeriod>>}
      \cup {<<TRUE, s, FALSE, NoPeriod>> : s \in Symbols}
      \cup {<<TRUE, s, TRUE, p>> : s \in Symbols, p \in Periods}
      \cup {<<FALSE, NoSymbol, TRUE, p>> : p \in Periods}

\* C15: from any state clearCache() leaves the store empty, and clearCache with
\* any arguments applied twice in a row leaves the store that applying it once
\* leaves; right after a clearCache, clearCache can be called again with any
\* arguments and returns normally, also when no entry matches any more.
C15_ClearIsTotalAndIdempotent ==
    /\ ClearedMap(cache, FALSE, NoSymbol, FALSE, NoPeriod) = <<>>
    /\ \A a \in ClearArgs :
          LET once == ClearedMap(cache, a[1], a[2], a[3], a[4])
          IN  ClearedMap(once, a[1], a[2], a[3], a[4]) = once
    /\ (last = Cleared) =>
          \A a \in ClearArgs : ENABLED ClearCache(a[1], a[2], a[3], a[4])

\* A clearCache that matched none of the entries it found, or not all of them.
C15_Witness ==
    /\ last.op = "clear"
    /\ cache # <<>>

\* ---------------------------------------------------- the catalog's claims
\* The call has a term that is not blank.
Filters(l) == l.hasSearch /\ \E i \in 1..Len(l.search) : l.search[i] \notin WhiteSpace

\* The term without the white space around it, in lower case.
TermOf(l) ==
    LET inked == {i \in 1..Len(l.search) : l.search[i] \notin WhiteSpace}
        first == CHOOSE i \in inked : \A j \in inked : i <= j
        final == CHOOSE i \in inked : \A j \in inked : j <= i
    IN  ToLowerCase(SubSeq(l.search, first, final))

\* The instruments are an array of instruments the call can read: none is null
\* and, when a term filters, each has a symbol.
Readable(l) ==
    /\ l.instruments.isArray
    /\ \A k \in 1..Len(l.instruments.items) :
          /\ ~l.instruments.items[k].isNull
          /\ Filters(l) => l.instruments.items[k].symbol.present

\* An instrument whose ticker, display name or short name, in lower case,
\* contains the term.
CatalogMatch(instrument, term) ==
    \/ Includes(ToLowerCase(OrEmpty(instrument.symbol)), term)
    \/ Includes(ToLowerCase(OrEmpty(instrument.name)), term)
    \/ Includes(ToLowerCase(OrEmpty(instrument.shortName)), term)

\* The descriptors of the instruments of the catalog that the call's term selects.
Selected(l) ==
    LET chosen == IF Filters(l)
                  THEN SelectSeq(l.instruments.items,
                                 LAMBDA i : CatalogMatch(i, TermOf(l)))
                  ELSE l.instruments.items
    IN  [k \in 1..Len(chosen) |-> InstrumentToSymbolInfo(chosen[k])]

\* What the call answers from its instruments: the selected ones when they are
\* readable and there is at least one, the hardcoded ES otherwise.
AnswerFrom(l) ==
    IF Readable(l) /\ l.instruments.items # <<>>
    THEN ResolvedWith(Selected(l))
    ELSE ResolvedWith(<<FallbackES>>)

\* C16 as stated: a catalog fetch that fails after an earlier successful one
\* makes the call return the previously fetched catalog, filtered by the term.
C16_FailedFetchReturnsPreviousCatalog ==
    (listed.source = "stale") => listed.result = ResolvedWith(Selected(listed))

\* C16 (as amended): when the catalog fetch fails after an earlier successful
\* fetch, however long ago, the call does not fail, leaves the slot as it was and
\* answers from it: the previously fetched catalog, filtered by the term, when
\* that catalog is an array of at least one instrument, none of them null and,
\* with a term, each with a symbol; the one hardcoded ES descriptor otherwise.
C16_FailedFetchAnswersFromTheSlot ==
    /\ (listed.source = "none") => ~instrumentsCache.present
    /\ (listed.source = "stale")
       => /\ instrumentsCache.present
          /\ listed.instruments = instrumentsCache.instruments
          /\ listed.age <= now - instrumentsCache.timestamp
          /\ listed.result.settled = "resolved"
          /\ listed.result = AnswerFrom(listed)

\* A failed fetch answered from a slot older than the expiry, filtered by a term.
C16_Witness ==
    /\ listed.source = "stale"
    /\ listed.age > instrumentsCacheExpiry
    /\ Filters(listed)
    /\ listed.result.symbols # <<>>
    /\ Len(listed.result.symbols) < Len(listed.instruments.items)
    /\ listed.result.symbols # <<FallbackES>>

\* C17 as stated: the call returns an empty sequence or fails exactly when the
\* catalog fetch fails and no catalog was ever fetched by this instance.
C17_EmptyExactlyWhenNeverFetched ==
    (listed.op = "search")
    => ((listed.source = "none")
        <=> (listed.result.settled = "rejected" \/ listed.result.symbols = <<>>))

\* C17 (as amended): the call never fails.  When the catalog fetch fails and no
\* catalog was ever fetched by this instance, and likewise when the instruments
\* it holds or fetches are empty, not an array, or not readable (a null
\* instrument, or a term and an instrument without symbol), it returns exactly
\* one descriptor, the hardcoded ES, whatever the term; it returns an empty
\* sequence only when a term matches none of the readable instruments of a
\* catalog that holds some.
C17_NoCatalogReturnsHardcodedES ==
    /\ (listed.op = "search") => listed.result.settled = "resolved"
    /\ (listed.source = "none")
       => /\ ~instrumentsCache.present
          /\ listed.instruments = InstrumentList(<<>>)
    /\ (listed.op = "search" /\ (~Readable(listed) \/ listed.instruments.items = <<>>))
       => listed.result.symbols = <<FallbackES>>
    /\ (listed.op = "search" /\ listed.result.symbols = <<>>)
       => /\ Readable(listed)
          /\ listed.instruments.items # <<>>
          /\ Filters(listed)
          /\ \A k \in 1..Len(listed.instruments.items) :
                ~CatalogMatch(listed.instruments.items[k], TermOf(listed))

\* The fetch failed, nothing was ever fetched, and a term that ES does not
\* contain was answered with ES.
C17_Witness ==
    /\ listed.source = "none"
    /\ listed.hasSearch
    /\ listed.search = <<"z", "z">>
    /\ listed.result = ResolvedWith(<<FallbackES>>)

\* C18 as stated: for every non-blank term and every catalog state, the call
\* returns exactly the catalog instruments that contain the term.
C18_ExactlyTheMatchingInstruments ==
    (listed.op = "search" /\ Filters(listed))
    => listed.result = ResolvedWith(Selected(listed))

\* C18 (as amended): for every non-blank term and every catalog that is an array
\* of at least one instrument, each with a symbol (fetched, cached or stale), the
\* call returns exactly the catalog instruments whose ticker, display name or
\* short name, in lower case, contains the trimmed term in lower case, in catalog
\* order; when there are no instruments (an empty catalog, or none ever fetched),
\* and when the instruments are not an array or one of them is null or has no
\* symbol, it returns the hardcoded ES, whatever the term.
C18_MatchingInstrumentsOrHardcodedES ==
    (listed.op = "search" /\ Filters(listed)) => listed.result = AnswerFrom(listed)

\* A mixed-case term between a tab and a space that only display names contain
\* selects two of the three instruments.
C18_Witness ==
    /\ listed.op = "search"
    /\ listed.search = <<"\t", "M", "i", "N", "i", " ">>
    /\ Len(listed.instruments.items) = 3
    /\ Len(listed.result.symbols) = 2
    /\ listed.result.symbols[1].ticker = Str(TickerES)
    /\ listed.result.symbols[2].ticker = Str(TickerNQ)

\* ------------------------------------------------------ series and keys
\* a < b of two timestamps: both are numbers and a is the smaller.
Earlier(a, b) == a.kind = "number" /\ b.kind = "number" /\ a.n < b.n

\* C19 as stated: every series a call returns, fetched or from the cache, is in
\* ascending order of timestamp with no timestamp twice, in whatever order the
\* remote endpoint delivered the bars.
C19_ReturnedSeriesAscending ==
    (last.op = "fetch" /\ last.outcome \in {"fetched", "hit"})
    => \A i \in 1..Len(last.data), j \in 1..Len(last.data) :
          i < j => Earlier(last.data[i].timestamp, last.data[j].timestamp)

\* The inputs of getHistoryKLineData that the key is checked on: tickers that
\* contain the separator and spell out parts of other keys, multipliers whose
\* digits overlap, ranges on both sides of the epoch that contain one another.
KeyTickers ==
    {TickerES, TickerESH, <<"E", "S", "-", "1">>,
     <<"E", "S", "-", "1", "m", "i", "n", "u", "t", "e", "-", "0">>}
KeyInstants == {0 - 1, 0, 1, 11}
KeyInputs ==
    {r \in [symbol : {[ticker |-> t] : t \in KeyTickers},
            period : {[multiplier |-> m, timespan |-> u] : m \in {1, 11}, u \in {Minute, Day}},
            from : KeyInstants, to : KeyInstants] : r.from < r.to}

\* Requests with the same key are the same request.
KeyInjectiveOn(reqs) ==
    \A r1 \in reqs, r2 \in reqs : CacheKey(r1) = CacheKey(r2) => r1 = r2

KeysInjective == KeyInjectiveOn(KeyInputs) /\ KeyInjectiveOn(KeyRequests)

\* The entry at position i of the store after the step was put there, or
\* replaced, by the step.
Inserted(i) == \A j \in 1..Len(cache) : cache[j] # cache'[i]

\* C20: a call is served from the cache only if the store holds a live entry
\* that an earlier successful call with exactly the same instrument, timeframe,
\* rangeStart and rangeEnd stored: an entry is inserted only by the successful
\* call for its own four inputs, a hit returns the series of the entry under the
\* call's own key, and the key is injective over the four inputs, so requests that
\* differ in any of them (overlapping or contained ranges too) share no entry.
C20_HitOnlyOnTheExactKey ==
    [][/\ KeysInjective
       /\ \A i \in 1..Len(cache') :
             Inserted(i) =>
                 /\ calls[1].pc = "json"
                 /\ calls[1].req \in KeyRequests
                 /\ cache'[i].key = CacheKey(calls[1].req)
                 /\ last' = Returned(calls[1].req, "fetched", cache'[i].data, last'.trace,
                                     now, 0)
       /\ \A r \in KeyRequests :
             (Start(1, r) /\ calls' = calls) =>
                 /\ last'.outcome = "hit"
                 /\ \E i \in 1..Len(cache) :
                       /\ cache[i].key = CacheKey(r)
                       /\ StoredFor(cache[i], KeyRequests) = r
                       /\ IsFresh(cache[i], now, cacheConfig)
                       /\ last'.data = cache[i].data]_vars

\* A call that went on to fetch although the store holds a live entry for the
\* same instrument and timeframe and a range that contains the call's range.
C20_Witness ==
    /\ calls[1].pc = "token"
    /\ \E i \in 1..Len(cache) :
          LET r == StoredFor(cache[i], KeyRequests)
          IN  /\ r.symbol = calls[1].req.symbol
              /\ r.period = calls[1].req.period
              /\ r.from <= calls[1].req.from
              /\ r.to > calls[1].req.to
              /\ IsFresh(cache[i], now, cacheConfig)

\* ------------------------------------------------------ overlapping calls
\* The other call slot.
Other(c) == CHOOSE d \in Calls : d # c

InFlight(c) == calls[c].pc # "idle"

\* The store holds an entry for r that a lookup now would serve.
LiveEntryFor(r) ==
    \E i \in 1..Len(cache) : cache[i].key = CacheKey(r) /\ IsFresh(cache[i], now, cacheConfig)

\* The series that the responses of the remote endpoint normalize to.
CompleteSeries ==
    {Normalize(DetectShape(b).rawData) : b \in {x \in Bodies : DetectShape(x).outcome = "ok"}}

\* Every entry a lookup can see is whole: the full series of one response under
\* the key of a request, and no key is stored twice.
EntriesWhole(m) ==
    /\ \A i \in 1..Len(m) :
          /\ m[i].data \in CompleteSeries
          /\ \E r \in OverlapRequests : m[i].key = CacheKey(r)
          /\ m[i].timestamp \in 0..MaxTime
    /\ \A i \in 1..Len(m), j \in 1..Len(m) : m[i].key = m[j].key => i = j

\* C21: a call that starts while another call for the same key is in flight and
\* the store holds no live entry for the key joins nothing: it goes on to its own
\* token lookup and HTTP request and leaves the other call as it is; a call
\* suspended in a request, or on the body of its answer, waits for its own; a
\* call that completes
\* returns the series of its own response and leaves exactly one entry for the
\* key, with that series and the time of this completion, whatever the other
\* call stored before; every entry of every state is whole.
C21_OverlappingCallsLastWriteWins ==
    [][/\ EntriesWhole(cache) /\ EntriesWhole(cache')
       /\ \A c \in Calls :
             /\ calls[c].pc \in {"fetch1", "fetch2"} =>
                    /\ calls[c].trace[Len(calls[c].trace)].type = "http"
                    /\ calls[c].trace[Len(calls[c].trace)].res = "pending"
             /\ calls[c].pc = "json" =>
                    /\ calls[c].trace[Len(calls[c].trace)].type = "http"
                    /\ calls[c].trace[Len(calls[c].trace)].res = "answered"
                    /\ calls[c].trace[Len(calls[c].trace)].body = NoBody
             /\ \A r \in OverlapRequests :
                    (/\ Start(c, r)
                     /\ InFlight(Other(c)) /\ calls[Other(c)].req = r
                     /\ ~LiveEntryFor(r))
                    => /\ calls'[c] = [pc |-> "token", req |-> r, trace |-> <<>>]
                       /\ calls'[Other(c)] = calls[Other(c)]
                       /\ last' = last
             /\ (InFlight(c) /\ calls'[c].pc = "idle" /\ last'.outcome # "error")
                    => LET tr == last'.trace
                           key == CacheKey(calls[c].req)
                       IN  /\ last'.op = "fetch" /\ last'.outcome = "fetched"
                           /\ last'.req = calls[c].req
                           /\ SubSeq(tr, 1, Len(tr) - 1)
                                 = SubSeq(calls[c].trace, 1, Len(tr) - 1)
                           /\ Len(tr) = Len(calls[c].trace)
                           /\ Succeeded(tr[Len(tr)])
                           /\ last'.data = Normalize(DetectShape(tr[Len(tr)].body).rawData)
                           /\ calls'[Other(c)] = calls[Other(c)]
                           /\ \E i \in 1..Len(cache') :
                                 /\ cache'[i] = [key |-> key, data |-> last'.data,
                                                 timestamp |-> now]
                                 /\ \A j \in 1..Len(cache') :
                                       cache'[j].key = key => j = i]_vars

\* Two calls for one key overlapped and the first has completed: its entry is in
\* the store, stamped now, and the other call is still waiting for the answer to
\* its own request (had it started after the insertion it would have been a hit).
C21_Witness ==
    \E c \in Calls :
        /\ calls[c].pc = "fetch1"
        /\ last.op = "fetch" /\ last.outcome = "fetched"
        /\ last.req = calls[c].req
        /\ last.storedAt = now
        /\ \E i \in 1..Len(cache) :
              cache[i] = [key |-> CacheKey(last.req), data |-> last.data, timestamp |-> now]

\* ------------------------------------------------------------- instances
\* The step constructs the page's second instance.
SecondConstructed == ~peer.present /\ peer'.present

\* The step turns the page from one instance to the other.
Turned == peer.present /\ peer' # peer

\* The instance the page called before the step is the other instance after it,
\* with the store it had.
LeftAsItWas == peer'.cache = cache /\ peer'.cacheConfig = cacheConfig

\* C22 as stated: no operation on one instance adds, removes or changes an entry
\* observable through another instance, with and without persistence: the
\* operations on one instance leave the store of the other as it is, and an
\* instance that has fetched nothing yet holds no entry.
C22_NoEntryFromAnotherInstance ==
    [][/\ SecondConstructed => (LeftAsItWas /\ cache' = <<>>)
       /\ Turned => (LeftAsItWas /\ cache' = peer.cache)]_vars

\* C22 (as amended): no operation on one instance changes the in-memory store of
\* another, and an instance without persistence starts empty and never writes
\* the mirror.  Instances with persistence share the mirror: a new one starts
\* with entries the mirror holds, whichever instance saved them, and a save by
\* either instance replaces the mirror with that instance's own store.
C22_OnlyTheMirrorIsShared ==
    [][/\ SecondConstructed =>
             /\ LeftAsItWas
             /\ ~cacheConfig'.persist => (cache' = <<>> /\ storage' = storage)
             /\ \A i \in 1..Len(cache') :
                   /\ storage.present
                   /\ \E j \in 1..Len(storage.entries) : cache'[i] = storage.entries[j]
       /\ Turned => (LeftAsItWas /\ cache' = peer.cache /\ storage' = storage)
       /\ (~SecondConstructed /\ ~Turned) => peer' = peer
       /\ (~cacheConfig'.persist /\ ~Turned) => storage' = storage
       /\ storage' # storage =>
             storage' = [present |-> TRUE, entries |-> JsonRoundTrip(cache')]]_vars

\* The second instance was constructed with persistence while the first one is
\* alive, and starts with an entry that the first one holds in its own store.
C22_Witness ==
    /\ peer.present
    /\ last.op = "construct"
    /\ \E i \in 1..Len(cache), j \in 1..Len(peer.cache) : cache[i] = peer.cache[j]

\* ------------------------------------------------------------ persistence
\* The item that holds exactly the entries of the store m, as JSON holds them.
Mirror(m) == [present |-> TRUE, entries |-> JsonRoundTrip(m)]

\* C23: with persistence enabled, every clearCache call, whatever its arguments
\* and whatever it matches, can write the mirror, and when it has returned the
\* mirror holds exactly the entries the store holds then, unless the write failed
\* and left the mirror as it was.
C23_ClearUpdatesTheMirror ==
    /\ [](cacheConfig.persist =>
            \A a \in ClearArgs :
                ENABLED (ClearCache(a[1], a[2], a[3], a[4]) /\ storage' = Mirror(cache')))
    /\ [][\A a \in ClearArgs :
             (ClearCache(a[1], a[2], a[3], a[4]) /\ cacheConfig.persist)
             => (storage' = Mirror(cache') \/ storage' = storage)]_vars

\* A clearCache with persistence has returned with entries left in the store,
\* and the mirror holds those entries.
C23_Witness ==
    /\ last = Cleared
    /\ cacheConfig.persist
    /\ cache # <<>>
    /\ storage = Mirror(cache)

\* The step is the return of the constructor.
ConstructStep == \E m \in MaxEntriesArgs, p \in BOOLEAN : Construct(m, ExpArg, p, FALSE)

\* The step is the return of a clearCache call.
ClearStep == \E a \in ClearArgs : ClearCache(a[1], a[2], a[3], a[4])

\* The step is the start of a getHistoryKLineData call.
StartStep == \E r \in PersistRequests : Start(1, r)

\* The step ends a call whose last request was answered 2xx with a body of a
\* supported shape.
AnsweredStep ==
    /\ InFlight(1) /\ calls'[1].pc = "idle"
    /\ Succeeded(last'.trace[Len(last'.trace)])

\* What the step leaves under 'chartCache': what was there (nothing written, or
\* the write failed) or the store as the step leaves it.
MirrorKeptOrWritten == storage' = storage \/ storage' = Mirror(cache')

\* C24: no read or write failure of the mirror makes an operation fail or
\* changes what it leaves in memory.  A call whose request succeeded stores the
\* entry and returns the series whether or not the write succeeds; clearCache
\* and the eviction at the start of a call leave the store their rules give; the
\* constructor returns an instance whose store is empty after a failed read,
\* and otherwise the pruned mirror.
C24_PersistenceIsBestEffort ==
    [][/\ AnsweredStep =>
             LET series == Normalize(DetectShape(last'.trace[Len(last'.trace)].body).rawData)
             IN  /\ last' = Returned(calls[1].req, "fetched", series, last'.trace, now, 0)
                 /\ cache' = MapSet(cache, CacheKey(calls[1].req), series, now)
                 /\ MirrorKeptOrWritten
       /\ ClearStep =>
             /\ last' = Cleared
             /\ \E a \in ClearArgs : cache' = ClearedMap(cache, a[1], a[2], a[3], a[4])
             /\ MirrorKeptOrWritten
       /\ StartStep =>
             /\ cache' = CleanExpiredEntries(cache, now, cacheConfig).cache
             /\ last' = last \/ last'.outcome = "hit"
             /\ MirrorKeptOrWritten
       /\ ConstructStep =>
             /\ last'.op = "construct"
             /\ last'.outcome \in {"off", "readfailed", "empty"} => cache' = <<>>
             /\ last'.outcome = "loaded" =>
                    cache' = CleanExpiredEntries(storage.entries, now, cacheConfig').cache
             /\ MirrorKeptOrWritten]_vars

\* A call with persistence has returned its series and the entry is in the
\* store, but the mirror does not hold it: the write failed.
C24_Witness ==
    /\ cacheConfig.persist
    /\ last.op = "fetch" /\ last.outcome = "fetched"
    /\ \E i \in 1..Len(cache) :
          cache[i] = [key |-> CacheKey(last.req), data |-> last.data, timestamp |-> now]
    /\ storage # Mirror(cache)

\* The entries of the saved item that have not expired at the time of the step,
\* under the window the new instance is constructed with.
LiveSaved ==
    {j \in 1..Len(storage.entries) :
        now - storage.entries[j].timestamp <= cacheConfig'.expirationTime}

\* The saved entries that the new instance holds.
Reloaded == {j \in 1..Len(storage.entries) :
                \E i \in 1..Len(cache') : cache'[i] = storage.entries[j]}

\* C25: a constructor with persistence that read the saved item leaves a store
\* with no expired entry and at most maxEntries entries, all of them saved
\* entries with the series and the timestamp they were saved with, in the saved
\* order; every live saved entry is among them when they fit, and otherwise
\* maxEntries of them are, none older than a live entry that was dropped.
C25_ReloadPrunesTheMirror ==
    [][(ConstructStep /\ last'.outcome = "loaded") =>
          /\ cacheConfig'.persist
          /\ \A i \in 1..Len(cache') :
                now - cache'[i].timestamp <= cacheConfig'.expirationTime
          /\ Len(cache') <= cacheConfig'.maxEntries
          /\ cache' = SelectSeq(storage.entries,
                                LAMBDA e : \E i \in 1..Len(cache') : cache'[i] = e)
          /\ Reloaded \subseteq LiveSaved
          /\ IF Cardinality(LiveSaved) <= cacheConfig'.maxEntries
             THEN Reloaded = LiveSaved
             ELSE /\ Cardinality(Reloaded) = cacheConfig'.maxEntries
                  /\ \A j \in LiveSaved \ Reloaded, k \in Reloaded :
                        storage.entries[j].timestamp <= storage.entries[k].timestamp]_vars

\* An instance constructed with maxEntries 1 over a saved item read its one
\* entry from the item, and wrote the pruned store back.
C25_Witness ==
    /\ last.op = "construct" /\ last.outcome = "loaded"
    /\ cacheConfig.maxEntries = 1
    /\ Len(cache) = 1
    /\ storage = Mirror(cache)

\* ------------------------------------------------------------- eviction
\* The entries of the store that have not expired.
LiveNow == {j \in 1..Len(cache) : ~(now - cache[j].timestamp > Window)}

\* The entries of the store that the step keeps.
KeptByStep == {j \in 1..Len(cache) : \E i \in 1..Len(cache') : cache'[i] = cache[j]}

\* C26: a run of cleanExpiredEntries removes every expired entry; of the live
\* entries it removes none when at most maxEntries are live, and otherwise
\* exactly (live count - maxEntries), each stamped no later than any entry it
\* keeps, so that maxEntries live entries stay; the entries kept stay as they
\* were, in their order.
C26_ExpiredFirstThenOldest ==
    [][CleanRun =>
          /\ cache' = SelectSeq(cache, LAMBDA e : \E i \in 1..Len(cache') : cache'[i] = e)
          /\ KeptByStep \subseteq LiveNow
          /\ IF Cardinality(LiveNow) <= cacheConfig.maxEntries
             THEN KeptByStep = LiveNow
             ELSE /\ Cardinality(LiveNow \ KeptByStep)
                        = Cardinality(LiveNow) - cacheConfig.maxEntries
                  /\ Cardinality(KeptByStep) = cacheConfig.maxEntries
                  /\ \A j \in LiveNow \ KeptByStep, k \in KeptByStep :
                        cache[j].timestamp <= cache[k].timestamp]_vars

\* A run has cut a store of two or three entries down to the capacity of one:
\* the entry it kept is stamped now.
C26_Witness ==
    /\ cacheConfig.maxEntries = 1
    /\ Len(cache) = 1
    /\ cache[1].timestamp = now

\* ------------------------------------------------------------- lifecycle
\* The step starts a call that misses the cache and goes on to fetch.
MissStep == (\E r \in Requests : Start(1, r)) /\ calls'[1].pc = "token"

\* The step ends a call with a rejection.
RejectStep == InFlight(1) /\ calls'[1].pc = "idle" /\ last'.outcome = "error"

\* The step ends a call with the series it fetched.
ResolveStep == InFlight(1) /\ calls'[1].pc = "idle" /\ last'.outcome = "fetched"

\* The live entries of the store, oldest first as cleanExpiredEntries sorts them.
LiveOldestFirst ==
    SortByTimestamp(SelectSeq(cache, LAMBDA e : ~(now - e.timestamp > Window)))

\* Entry j is among the oldest live entries by which the store exceeds maxEntries.
AmongTheOldest(j) ==
    /\ Len(LiveOldestFirst) > cacheConfig.maxEntries
    /\ \E k \in 1..(Len(LiveOldestFirst) - cacheConfig.maxEntries) :
          LiveOldestFirst[k] = cache[j]

\* The step is a clearCache call that matches entry j.
ClearedByStep(j) ==
    \E a \in ClearArgs :
        /\ ClearCache(a[1], a[2], a[3], a[4])
        /\ ~MapHas(ClearedMap(cache, a[1], a[2], a[3], a[4]), cache[j].key)

\* An entry enters the store only when a call for its key resolves with the
\* series it fetched.
EntersOnlyOnSuccess ==
    \A i \in 1..Len(cache') :
        Inserted(i) =>
            /\ ResolveStep
            /\ cache'[i] = [key |-> CacheKey(calls[1].req), data |-> last'.data,
                            timestamp |-> now]

\* An entry leaves the store only expired, among the oldest beyond maxEntries,
\* or matched by clearCache.
LeavesOnlyByRule ==
    \A j \in 1..Len(cache) :
        j \notin KeptByStep =>
            \/ now - cache[j].timestamp > Window
            \/ AmongTheOldest(j)
            \/ ClearedByStep(j)

\* C27 as stated: entries enter only on success and leave only by expiry,
\* capacity or clearCache, and a call that fails inserts nothing and leaves every
\* live entry as it was.  Whether a call fails is decided after its start and
\* does not depend on the store, so the steps of the calls that fail are the
\* starts that miss, the steps in flight and the rejections.
C27_FailedFetchLeavesLiveEntries ==
    [][/\ EntersOnlyOnSuccess
       /\ LeavesOnlyByRule
       /\ (MissStep \/ RejectStep \/ (InFlight(1) /\ calls' # calls /\ ~ResolveStep))
             => /\ LiveNow \subseteq KeptByStep
                /\ \A i \in 1..Len(cache') : ~Inserted(i)]_vars

\* --------------------------------------------------------- the catalog slot
\* The step is call c of searchSymbols being made.
ListStep(c) == SearchSymbols(c, FALSE, <<>>)

\* The step issues no catalog request: no call comes to wait for getAll().
NoCatalogRequest == searching' = searching

\* The step issues the one catalog request of call c.
OneCatalogRequest(c) ==
    /\ searching[c].pc = "idle"
    /\ searching' = [searching EXCEPT ![c] = searching'[c]]
    /\ searching'[c].pc = "getAll"

\* The answer to a call's catalog request ends the call: it issues no second one.
AnswerEndsTheCall ==
    \A c \in SearchCalls :
       (searching[c].pc = "getAll" /\ searching'[c] # searching[c]) =>
          /\ searching'[c] = IdleSearch
          /\ listed'.source \in {"fetched", "stale", "none"}

\* clearCache and cleanExpiredEntries leave the slot and the calls on it alone.
StoreStepsLeaveTheSlot == (ClearStep \/ CleanRun) => UNCHANGED catalogVars

\* The catalog fetch that succeeded last did so at this instant: the call that
\* returned last is the one that filled the slot, and it returned listed.age
\* after the instant it stamped the slot with.
LastFetchSucceededAt == instrumentsCache.timestamp + listed.age

\* C28 as stated: a call made less than five minutes after a successful catalog
\* fetch issues no catalog request, a call made five minutes or more after it
\* issues exactly one, and neither clearCache nor eviction changes the slot.
C28_NoRequestWithinFiveMinutesOfAFetch ==
    [][/\ \A c \in SearchCalls :
             (ListStep(c) /\ listed.source = "fetched") =>
                IF now - LastFetchSucceededAt < 5 * 60 * 1000
                THEN NoCatalogRequest
                ELSE OneCatalogRequest(c)
       /\ AnswerEndsTheCall
       /\ StoreStepsLeaveTheSlot]_vars

\* C28 (as amended): the catalog is one slot with its own five minutes, counted
\* from the stamp of the slot.  The slot changes only when a catalog request
\* succeeds: it then holds that catalog, stamped with the instant the call that
\* fetched it was made, which is not later than the success and, when calls
\* overlap, may be older than the stamp it replaces.  A call made less than
\* instrumentsCacheExpiry after the stamp is answered from the slot without a
\* request; any later call, and any call on an empty slot, issues exactly one
\* request, whose answer ends the call.  clearCache and cleanExpiredEntries
\* leave the slot and the calls on it as they are.
C28_CatalogSlotOfFiveMinutes ==
    [][/\ instrumentsCacheExpiry = 5 * 60 * 1000
       /\ \A c \in SearchCalls :
             ListStep(c) =>
                IF instrumentsCache.present
                   /\ now - instrumentsCache.timestamp < instrumentsCacheExpiry
                THEN /\ NoCatalogRequest
                     /\ instrumentsCache' = instrumentsCache
                     /\ listed'.source = "cached"
                     /\ listed'.instruments = instrumentsCache.instruments
                ELSE /\ OneCatalogRequest(c)
                     /\ searching'[c].now = now
                     /\ instrumentsCache' = instrumentsCache
                     /\ listed' = listed
       /\ AnswerEndsTheCall
       /\ instrumentsCache' # instrumentsCache =>
             \E c \in SearchCalls :
                /\ searching[c].pc = "getAll" /\ searching'[c] = IdleSearch
                /\ listed'.source = "fetched"
                /\ instrumentsCache' = [present |-> TRUE,
                                         instruments |-> listed'.instruments,
                                         timestamp |-> searching[c].now]
                /\ searching[c].now <= now
                /\ listed'.age = now - searching[c].now
       /\ StoreStepsLeaveTheSlot]_vars

\* A call was answered from the slot one millisecond before the stamp of the
\* slot expired, after clearCache or an eviction had emptied the store.
C28_Witness ==
    /\ listed.source = "cached"
    /\ listed.age = instrumentsCacheExpiry - 1
    /\ cache = <<>>

\* ------------------------------------------------ clearCache during a call
\* The step ends call c with the series it fetched.
Resolves(c) == InFlight(c) /\ calls'[c].pc = "idle" /\ last'.outcome = "fetched"

\* C29: a clearCache that runs while a call is in flight, global or for the
\* call's own symbol, leaves the call where it is; and a call that resolves, in
\* whatever state the clearCache calls since its start left the store, puts its
\* entry into the store, stamped with the instant of its completion.
C29_ClearDoesNotCancelTheFetch ==
    [][\A c \in Calls :
          /\ (ClearStep /\ InFlight(c)) => calls'[c] = calls[c]
          /\ Resolves(c) =>
                /\ last'.req = calls[c].req
                /\ last'.storedAt = now
                /\ \E i \in 1..Len(cache') :
                      cache'[i] = [key |-> CacheKey(calls[c].req), data |-> last'.data,
                                   timestamp |-> now]]_vars

\* A call is waiting for the body of the answer to its request, the operation
\* that returned last is a clearCache, and the store is empty: the body will put
\* the entry for the cleared key into it.
C29_Witness ==
    /\ last = Cleared
    /\ cache = <<>>
    /\ \E c \in Calls :
          /\ calls[c].pc = "json"
          /\ ENABLED (JsonResult(c) /\ Resolves(c))

\* ------------------------------------------------------- size of the store
\* C30: with maxEntries >= 1 and calls made one after the other, the store
\* never holds more than maxEntries + 1 entries; from the lookup of a call, a
\* hit or a miss, until the call inserts, it holds at most maxEntries: the
\* capacity rule runs at the start of the call, before the lookup, and the
\* insertion is followed by no eviction.
C30_AtMostOneBeyondCapacity ==
    /\ cacheConfig.maxEntries >= 1
    /\ Len(cache) <= cacheConfig.maxEntries + 1
    /\ (InFlight(1) \/ (last.op = "fetch" /\ last.outcome \in {"hit", "error"}))
          => Len(cache) <= cacheConfig.maxEntries

\* A call has returned the series it fetched and the store holds one entry more
\* than maxEntries.
C30_Witness ==
    /\ last.op = "fetch" /\ last.outcome = "fetched"
    /\ Len(cache) = cacheConfig.maxEntries + 1

====
